---- MODULE Spec2Model ----
(***************************************************************************)
(* apalis-nats: the NATS JetStream storage adapter of apalis.              *)
(*                                                                         *)
(* The model follows packages/apalis-nats/src/storage.rs and expose.rs:    *)
(* the producer (push_with_priority), the priority fetch loop and the ack  *)
(* task spawned by Backend::poll, the acknowledgement state machine        *)
(* Ack::ack, and the per-delivery context operations.  The JetStream       *)
(* broker is modelled by the behaviour the consumer configuration of       *)
(* get_or_create_consumer asks of it (explicit ack, ack_wait, max_deliver, *)
(* work-queue retention).                                                   *)
(***************************************************************************)
EXTENDS Naturals, Sequences, FiniteSets, TLC

\* ------------------------------------------------------------------ bounds

\* Number of jobs the producer pushes in a run.
MaxJobs == 1

\* Number of jobs in the runs that observe the order of emission.
MaxQueued == 3

\* Number of jobs in the runs of two workers on one storage.
MaxShared == 2

\* Number of processes that construct a storage on the same broker.
MaxCallers == 2

\* Messages of a backlog: more than the job channel and the loop can hold.
MaxBacklog == 12

\* --------------------------------------------------------------- constants

\* Config.max_deliver as the DLQ test sets it.
max_deliver == 2

\* Capacity of the job channel and of the ack channel created by poll.
ChannelCap == 10

\* Config::default().ack_wait (30 s), in ticks of 15 seconds.
ack_wait == 2

\* The interval of the heartbeat layer in the crate docs (15 s), in ticks.
interval == 1

\* The three priorities, in the order the fetch loop visits them.
PriorityOrder == <<"high", "medium", "low">>

Priority == {"high", "medium", "low"}

\* The place of a priority in the fetch order: High is 1.
Rank(p) == CHOOSE i \in 1..Len(PriorityOrder) : PriorityOrder[i] = p

\* The documented backoff schedule of transient errors (milliseconds).
nak_backoff == <<100, 200, 500, 1000, 2000, 5000>>

\* The handler outcomes the ack state machine distinguishes:
\* Ok(_), Err(Error::Abort(_)), Err(_).
Outcome == {"ok", "abort", "transient"}

Jobs == 1..MaxJobs

Queued == 1..MaxQueued

Shared == 1..MaxShared

Deliveries == 1..max_deliver

Callers == 1..MaxCallers

\* The two workers that poll the storage.
Workers == {"worker", "peer"}

\* Config::default().namespace.
namespace == "apalis"

\* get_stream_name: format!("{}_{}", namespace, priority).
get_stream_name(p) == namespace \o "_" \o p

\* get_subject: format!("{}.{}", namespace, priority).
get_subject(p) == namespace \o "." \o p

\* The stream::Config new_with_config builds for a priority.
stream_config(p) ==
    [name |-> get_stream_name(p), subjects |-> <<get_subject(p)>>,
     retention |-> "WorkQueue"]

\* The stream::Config new_with_config builds for the DLQ.
dlq_config ==
    [name |-> namespace \o "_dlq", subjects |-> <<namespace \o ".dlq">>,
     retention |-> "Limits"]

\* The streams new_with_config asks for, in the order it asks for them.
StreamConfigs(cfg) ==
    [i \in 1..Len(PriorityOrder) |-> stream_config(PriorityOrder[i])]
        \o (IF cfg.enable_dlq THEN <<dlq_config>> ELSE << >>)

\* The streams of the broker once a construction succeeded.
Provisioned(cfg) == StreamConfigs(cfg)

\* Config::default().max_ack_pending.
max_ack_pending_default == 100

\* The max_ack_pending the integration tests configure.
max_ack_pending_test == 10

\* self.config.max_ack_pending: a Config built with ..Default::default() has
\* the default unless it names the field.
max_ack_pending(cfg) ==
    IF "max_ack_pending" \in DOMAIN cfg THEN cfg.max_ack_pending
    ELSE max_ack_pending_default

\* No construction is in progress for a caller.
CtorIdle == [pc |-> "idle", idx |-> 1, failed |-> FALSE, ret |-> "none"]

\* No consumer lookup is in progress for a worker.
FactoryIdle == [pc |-> "idle", p |-> "none", ret |-> "none"]

\* No progress ticker runs.
HbOff == [on |-> FALSE, left |-> 0, m |-> 0, d0 |-> 0, ran |-> 0]

\* Both channels of poll are open: the worker holds job_rx and ack_tx.
Open == [job_rx |-> FALSE, ack_tx |-> FALSE]

\* A context that carries no broker message (NatsContext::default()).
NoMessage == [m |-> 0, delivered |-> 0]

\* NatsContext::with_message: the context owns the delivered broker message;
\* msg.info().delivered is the delivery count the broker stamped on it.
with_message(m, d) == [m |-> m, delivered |-> d]

VARIABLES
    config,   \* Config: [enable_dlq, max_ack_pending]; a field left out is at
              \* its default
    bmsg,     \* broker: per published message, its stream and consumer state
              \* [prio, st, delivered, timer, payload]; timer is what is left
              \* of the ack_wait of the current delivery, payload is "job"
              \* for a NatsJob envelope
    pushed,   \* number of messages published so far (stream sequence)
    dlq,      \* broker: the messages of the DLQ stream, in log order
    fetch,    \* the fetch loop task: [pc, idx, held]
    job_ch,   \* the job channel (job_tx -> job_rx): contexts of emitted requests
    running,  \* the worker's handler slot: << >> or <<[ctx, signals, progress, res]>>
    ack_ch,   \* the ack channel (ack_tx -> ack_rx): (ctx, outcome) records
    ackt,     \* the ack task: position in Ack::ack and the record it handles
    peer,     \* a second worker on the same storage: its fetch loop, channels
              \* and handler slot
    invoked,  \* per message, the number of handler invocations so far
    call,     \* the storage call the producer is in: [op, pc, ..., ret]
    streams,  \* broker: the streams that exist, in the order of their creation
    consumers,\* broker: the durable consumers that exist, in creation order
    ctor,     \* per caller, the new_with_config call it is in: [pc, idx, ..]
    factory,  \* per worker, the get_or_create_consumer call of its fetch loop
    hb,       \* the progress ticker of the heartbeat layer: [on, left]
    closed    \* which ends of the two channels were dropped: [job_rx, ack_tx]

\* Each delivery in the pipeline carries `signals`, the number of terminal
\* signals (ack, nak, term) sent to the broker for it so far, counted up to 2,
\* and `progress`, whether an in-progress signal was sent for it (0 or 1).

vars == <<config, bmsg, pushed, dlq, fetch, job_ch, running, ack_ch, ackt,
          peer, invoked, call, streams, consumers, ctor, factory, hb, closed>>

\* Variant: the consumer is created with the default max_ack_pending whatever
\* the Config says.
consumer_config_default_pending(p) ==
    [name |-> namespace \o "_" \o p \o "_consumer",
     durable_name |-> namespace \o "_" \o p \o "_consumer",
     stream |-> get_stream_name(p),
     filter_subject |-> get_subject(p),
     max_deliver |-> max_deliver,
     max_ack_pending |-> max_ack_pending_default]

\* The consumer::pull::Config get_or_create_consumer builds for a priority.
consumer_config(p) ==
    [name |-> namespace \o "_" \o p \o "_consumer",
     durable_name |-> namespace \o "_" \o p \o "_consumer",
     stream |-> get_stream_name(p),
     filter_subject |-> get_subject(p),
     max_deliver |-> max_deliver,
     max_ack_pending |-> max_ack_pending(config)]

\* The max_deliver of the durable consumer the broker holds for a priority:
\* stream.get_or_create_consumer returns a consumer of that name as it is,
\* and creates it from consumer_config when there is none.
ConsumerMaxDeliver(p) ==
    IF \E i \in DOMAIN consumers : consumers[i].name = consumer_config(p).name
        THEN consumers[CHOOSE i \in DOMAIN consumers :
                           consumers[i].name = consumer_config(p).name].max_deliver
        ELSE consumer_config(p).max_deliver

\* The consumers of the broker once the fetch loop has visited each priority.
SharedConsumers == [i \in 1..Len(PriorityOrder) |-> consumer_config(PriorityOrder[i])]

\* ------------------------------------------------------------------ broker

Unpublished ==
    [prio |-> "none", st |-> "unpub", delivered |-> 0, timer |-> 0,
     payload |-> "job"]

\* Variant: RetentionPolicy::Limits, an acknowledged message stays in its stream.
InStream_limits(b) == b.st # "unpub"

\* A message is in its priority stream until it is acked or terminated
\* (RetentionPolicy::WorkQueue removes acknowledged messages).
InStream(b) == b.st \in {"avail", "inflight", "exhausted"}

\* The consumer's pending acknowledgements: the messages of priority p that
\* were delivered and are neither acknowledged nor given up for good.
Pending(p) ==
    {m \in DOMAIN bmsg : /\ bmsg[m].prio = p
                          /\ bmsg[m].delivered > 0
                          /\ bmsg[m].st \in {"avail", "inflight"}}

\* The messages of priority p the consumer can deliver now: a redelivery at
\* any time, a first delivery only while fewer than max_ack_pending
\* acknowledgements are pending.
Available(p) ==
    {m \in DOMAIN bmsg :
        /\ bmsg[m].prio = p
        /\ bmsg[m].st = "avail"
        /\ \/ bmsg[m].delivered > 0
           \/ Cardinality(Pending(p)) < consumer_config(p).max_ack_pending}

Min(S) == CHOOSE x \in S : \A y \in S : x <= y

\* consumer.fetch().max_messages(1): the broker hands out the first
\* deliverable message of the stream, counts the delivery and starts ack_wait.
BrokerDeliver(b) ==
    [b EXCEPT !.st = "inflight", !.delivered = @ + 1, !.timer = ack_wait]

\* Variant: the consumer allows one delivery more than max_deliver.
AfterGiveUp_one_more(b) ==
    [b EXCEPT !.st = IF b.delivered < ConsumerMaxDeliver(b.prio) + 1
                        THEN "avail" ELSE "exhausted",
              !.timer = 0]

\* After a delivery is given up (nak, or ack_wait expired) the consumer
\* redelivers the message unless it was already delivered max_deliver times.
AfterGiveUp(b) ==
    [b EXCEPT !.st = IF b.delivered < ConsumerMaxDeliver(b.prio)
                        THEN "avail" ELSE "exhausted",
              !.timer = 0]

\* AckKind::Ack and AckKind::Term remove a message that is still in the stream;
\* a signal for a message already removed is ignored.
BrokerAck(b) == IF InStream(b) THEN [b EXCEPT !.st = "acked", !.timer = 0] ELSE b

BrokerTerm(b) == IF InStream(b) THEN [b EXCEPT !.st = "termed", !.timer = 0] ELSE b

\* AckKind::Nak(None): no delay, the message is redeliverable at once.
BrokerNak(b) == IF b.st = "inflight" THEN AfterGiveUp(b) ELSE b

\* ack_wait of a delivery ran out without a terminal signal or progress.
Expire(m) ==
    /\ bmsg[m].st = "inflight"
    /\ bmsg' = [bmsg EXCEPT ![m] = AfterGiveUp(@)]
    /\ UNCHANGED <<config, pushed, dlq, fetch, job_ch, running, ack_ch, ackt,
                   peer, invoked, call, streams, consumers, ctor, factory, hb, closed>>

\* One more terminal signal was sent for a delivery.
Signalled(n) == IF n < 2 THEN n + 1 ELSE n

\* ---------------------------------------------------------------- producer

\* push_with_priority: the envelope is published to the subject of the chosen
\* priority and the id is returned once the broker acknowledged the publish.
\* A run publishes as many messages as the broker state has room for.
push_with_priority(p) ==
    /\ pushed + 1 \in DOMAIN bmsg
    /\ pushed' = pushed + 1
    /\ bmsg' = [bmsg EXCEPT ![pushed + 1] =
                  [prio |-> p, st |-> "avail", delivered |-> 0,
                   timer |-> 0, payload |-> "job"]]
    /\ UNCHANGED <<config, dlq, fetch, job_ch, running, ack_ch, ackt, peer,
                   invoked, call, streams, consumers, ctor, factory, hb, closed>>

\* -------------------------------------------------------------- fetch loop

NextIdx(i) == IF i = Len(PriorityOrder) THEN 1 ELSE i + 1

\* serde_json::from_slice::<NatsJob<T>>(&msg.payload): only an envelope that
\* push wrote decodes.
from_slice(b) == IF b.payload = "job" THEN "ok" ELSE "err"

Max(S) == CHOOSE x \in S : \A y \in S : x >= y

\* Variant: the pull takes the newest deliverable message of the stream.
FetchPull_newest ==
    /\ fetch.pc = "poll"
    /\ Available(PriorityOrder[fetch.idx]) # {}
    /\ LET m == Max(Available(PriorityOrder[fetch.idx])) IN
         /\ from_slice(bmsg[m]) = "ok"
         /\ bmsg' = [bmsg EXCEPT ![m] = BrokerDeliver(@)]
         /\ fetch' = [fetch EXCEPT !.pc = "send",
                                   !.held = with_message(m, bmsg[m].delivered + 1)]
    /\ UNCHANGED <<config, pushed, dlq, job_ch, running, ack_ch, ackt, peer,
                   invoked, call, streams, consumers, ctor, factory, hb, closed>>

\* A pull on the current priority yields a message: it is decoded, wrapped in
\* a context and held until the job channel takes it.
FetchPull ==
    /\ fetch.pc = "poll"
    /\ Available(PriorityOrder[fetch.idx]) # {}
    /\ LET m == Min(Available(PriorityOrder[fetch.idx])) IN
         /\ from_slice(bmsg[m]) = "ok"
         /\ bmsg' = [bmsg EXCEPT ![m] = BrokerDeliver(@)]
         /\ fetch' = [fetch EXCEPT !.pc = "send",
                                   !.held = with_message(m, bmsg[m].delivered + 1)]
    /\ UNCHANGED <<config, pushed, dlq, job_ch, running, ack_ch, ackt, peer,
                   invoked, call, streams, consumers, ctor, factory, hb, closed>>

\* The pull on the current priority yields nothing: fall through to the next
\* priority, or end the pass (sleep, then start again from High).
FetchNone ==
    /\ fetch.pc = "poll"
    /\ Available(PriorityOrder[fetch.idx]) = {}
    /\ fetch' = [fetch EXCEPT !.idx = NextIdx(@)]
    /\ UNCHANGED <<config, bmsg, pushed, dlq, job_ch, running, ack_ch, ackt,
                   peer, invoked, call, streams, consumers, ctor, factory, hb, closed>>

\* Variant: a failed broker request ends the fetch task.
FetchFail_exits ==
    /\ fetch.pc = "poll"
    /\ fetch' = [fetch EXCEPT !.pc = "exited"]
    /\ UNCHANGED <<config, bmsg, pushed, dlq, job_ch, running, ack_ch, ackt,
                   peer, invoked, call, streams, consumers, ctor, factory, hb, closed>>

\* Consumer lookup, the fetch request or reading the batch failed: the
\* `if let Ok(..)` guards skip the priority.
FetchFail ==
    /\ fetch.pc = "poll"
    /\ fetch' = [fetch EXCEPT !.idx = NextIdx(@)]
    /\ UNCHANGED <<config, bmsg, pushed, dlq, job_ch, running, ack_ch, ackt,
                   peer, invoked, call, streams, consumers, ctor, factory, hb, closed>>

\* Variant: after a job was sent the pass goes on with the next priority.
FetchSend_continue ==
    /\ fetch.pc = "send"
    /\ ~closed.job_rx
    /\ Len(job_ch) < ChannelCap
    /\ job_ch' = Append(job_ch, fetch.held)
    /\ fetch' = [pc |-> "poll", idx |-> NextIdx(fetch.idx), held |-> NoMessage]
    /\ UNCHANGED <<config, bmsg, pushed, dlq, running, ack_ch, ackt, peer,
                   invoked, call, streams, consumers, ctor, factory, hb, closed>>

\* job_tx.send(Ok(Some(request))): job_found = true, break, restart from High.
FetchSend ==
    /\ fetch.pc = "send"
    /\ ~closed.job_rx
    /\ Len(job_ch) < ChannelCap
    /\ job_ch' = Append(job_ch, fetch.held)
    /\ fetch' = [pc |-> "poll", idx |-> 1, held |-> NoMessage]
    /\ UNCHANGED <<config, bmsg, pushed, dlq, running, ack_ch, ackt, peer,
                   invoked, call, streams, consumers, ctor, factory, hb, closed>>

\* job_tx.send(..) is an error because the receiver was dropped: `return`,
\* the task ends.  The request and its context are dropped with nothing sent
\* to the broker; `held` keeps naming the message the loop held last.
FetchSendClosed ==
    /\ fetch.pc = "send"
    /\ closed.job_rx
    /\ fetch' = [fetch EXCEPT !.pc = "exited"]
    /\ UNCHANGED <<config, bmsg, pushed, dlq, job_ch, running, ack_ch, ackt, peer,
                   invoked, call, streams, consumers, ctor, factory, hb, closed>>

\* A pull on the current priority yields a message whose payload is not a
\* NatsJob envelope: the error is logged and the message is to be terminated.
FetchMalformed ==
    /\ fetch.pc = "poll"
    /\ Available(PriorityOrder[fetch.idx]) # {}
    /\ LET m == Min(Available(PriorityOrder[fetch.idx])) IN
         /\ from_slice(bmsg[m]) = "err"
         /\ bmsg' = [bmsg EXCEPT ![m] = BrokerDeliver(@)]
         /\ fetch' = [fetch EXCEPT !.pc = "term",
                                   !.held = with_message(m, bmsg[m].delivered + 1)]
    /\ UNCHANGED <<config, pushed, dlq, job_ch, running, ack_ch, ackt, peer,
                   invoked, call, streams, consumers, ctor, factory, hb, closed>>

\* Variant: a malformed message is naked.
FetchTerm_nak ==
    /\ fetch.pc = "term"
    /\ bmsg' = [bmsg EXCEPT ![fetch.held.m] = BrokerNak(@)]
    /\ fetch' = [pc |-> "poll", idx |-> NextIdx(fetch.idx), held |-> NoMessage]
    /\ UNCHANGED <<config, pushed, dlq, job_ch, running, ack_ch, ackt, peer,
                   invoked, call, streams, consumers, ctor, factory, hb, closed>>

\* msg.ack_with(AckKind::Term) for the malformed message reached the broker;
\* no break: the pass goes on with the next priority.
FetchTerm ==
    /\ fetch.pc = "term"
    /\ bmsg' = [bmsg EXCEPT ![fetch.held.m] = BrokerTerm(@)]
    /\ fetch' = [pc |-> "poll", idx |-> NextIdx(fetch.idx), held |-> NoMessage]
    /\ UNCHANGED <<config, pushed, dlq, job_ch, running, ack_ch, ackt, peer,
                   invoked, call, streams, consumers, ctor, factory, hb, closed>>

\* msg.ack_with(AckKind::Term) failed: "Failed to term malformed message" is
\* logged and the pass goes on.
FetchTermFail ==
    /\ fetch.pc = "term"
    /\ fetch' = [pc |-> "poll", idx |-> NextIdx(fetch.idx), held |-> NoMessage]
    /\ UNCHANGED <<config, bmsg, pushed, dlq, job_ch, running, ack_ch, ackt, peer,
                   invoked, call, streams, consumers, ctor, factory, hb, closed>>

\* Another client publishes a payload that is no NatsJob envelope to the
\* subject of priority p.
publish_raw(p) ==
    /\ pushed + 1 \in DOMAIN bmsg
    /\ pushed' = pushed + 1
    /\ bmsg' = [bmsg EXCEPT ![pushed + 1] =
                  [prio |-> p, st |-> "avail", delivered |-> 0,
                   timer |-> 0, payload |-> "garbage"]]
    /\ UNCHANGED <<config, dlq, fetch, job_ch, running, ack_ch, ackt, peer,
                   invoked, call, streams, consumers, ctor, factory, hb, closed>>

\* The worker shuts down and drops the job stream (job_rx): the requests still
\* in the channel are dropped with it.
DropJobRx ==
    /\ ~closed.job_rx
    /\ closed' = [closed EXCEPT !.job_rx = TRUE]
    /\ job_ch' = << >>
    /\ UNCHANGED <<config, bmsg, pushed, dlq, fetch, running, ack_ch, ackt, peer,
                   invoked, call, streams, consumers, ctor, factory, hb>>

\* ------------------------------------------------------------------ worker

\* The worker takes the next request from the job stream and runs the handler.
WorkerTake ==
    /\ ~closed.job_rx
    /\ job_ch # << >>
    /\ running = << >>
    /\ running' = <<[ctx |-> Head(job_ch), signals |-> 0, progress |-> 0,
                    res |-> "none"]>>
    /\ job_ch' = Tail(job_ch)
    /\ invoked' = [invoked EXCEPT ![Head(job_ch).m] = @ + 1]
    /\ UNCHANGED <<config, bmsg, pushed, dlq, fetch, ack_ch, ackt, peer, call,
            streams, consumers, ctor, factory, hb, closed>>

\* A handler settles its delivery through the context at most once.
CanSettle == running # << >> /\ running[1].signals = 0

\* NatsContext::ack called by the running handler: msg.ack() if the context
\* carries a message, Ok(()) with nothing sent otherwise.
ctx_ack ==
    /\ CanSettle
    /\ bmsg' = IF running[1].ctx = NoMessage THEN bmsg
               ELSE [bmsg EXCEPT ![running[1].ctx.m] = BrokerAck(@)]
    /\ running' = <<[running[1] EXCEPT
                       !.signals = IF running[1].ctx = NoMessage THEN @
                                   ELSE Signalled(@),
                       !.res = "ok"]>>
    /\ UNCHANGED <<config, pushed, dlq, fetch, job_ch, ack_ch, ackt, peer,
                   invoked, call, streams, consumers, ctor, factory, hb, closed>>

\* NatsContext::nack called by the running handler.
ctx_nack ==
    /\ CanSettle
    /\ bmsg' = IF running[1].ctx = NoMessage THEN bmsg
               ELSE [bmsg EXCEPT ![running[1].ctx.m] = BrokerNak(@)]
    /\ running' = <<[running[1] EXCEPT
                       !.signals = IF running[1].ctx = NoMessage THEN @
                                   ELSE Signalled(@),
                       !.res = "ok"]>>
    /\ UNCHANGED <<config, pushed, dlq, fetch, job_ch, ack_ch, ackt, peer,
                   invoked, call, streams, consumers, ctor, factory, hb, closed>>

\* NatsContext::term called by the running handler.
ctx_term ==
    /\ CanSettle
    /\ bmsg' = IF running[1].ctx = NoMessage THEN bmsg
               ELSE [bmsg EXCEPT ![running[1].ctx.m] = BrokerTerm(@)]
    /\ running' = <<[running[1] EXCEPT
                       !.signals = IF running[1].ctx = NoMessage THEN @
                                   ELSE Signalled(@),
                       !.res = "ok"]>>
    /\ UNCHANGED <<config, pushed, dlq, fetch, job_ch, ack_ch, ackt, peer,
                   invoked, call, streams, consumers, ctor, factory, hb, closed>>

\* The handler returns; the AckLayer sends (ctx, response) on the ack channel.
HandlerReturn(o) ==
    /\ ~closed.ack_tx
    /\ running # << >>
    /\ Len(ack_ch) < ChannelCap
    /\ ack_ch' = Append(ack_ch, [ctx |-> running[1].ctx, outcome |-> o,
                                 signals |-> running[1].signals,
                                 progress |-> running[1].progress])
    /\ running' = << >>
    /\ UNCHANGED <<config, bmsg, pushed, dlq, fetch, job_ch, ackt, peer,
                   invoked, call, streams, consumers, ctor, factory, hb, closed>>

\* The worker is handed a request that was built by hand: its context is
\* NatsContext::default(), which carries no broker message.  Such requests
\* are made one at a time, each after the ack task is done with the last.
SyntheticCall ==
    /\ running = << >>
    /\ ack_ch = << >>
    /\ ackt.pc = "idle"
    /\ running' = <<[ctx |-> NoMessage, signals |-> 0, progress |-> 0,
                     res |-> "none"]>>
    /\ UNCHANGED <<config, bmsg, pushed, dlq, fetch, job_ch, ack_ch, ackt, peer,
                   invoked, call, streams, consumers, ctor, factory, hb, closed>>

\* ---------------------------------------------------------------- progress

\* Variant: the broker takes an in-progress signal for an acknowledgement.
BrokerProgress_acks(b) == IF InStream(b) THEN [b EXCEPT !.st = "acked", !.timer = 0] ELSE b

\* AckKind::Progress: the broker restarts the ack_wait of a delivery that is
\* pending and changes nothing else.
BrokerProgress(b) == IF b.st = "inflight" THEN [b EXCEPT !.timer = ack_wait] ELSE b

\* NatsContext::progress called by the running handler: msg.ack_with(
\* AckKind::Progress) if the context carries a message, Ok(()) otherwise.
ctx_progress ==
    /\ running # << >>
    /\ bmsg' = IF running[1].ctx = NoMessage THEN bmsg
               ELSE [bmsg EXCEPT ![running[1].ctx.m] = BrokerProgress(@)]
    /\ running' = <<[running[1] EXCEPT
                       !.progress = IF running[1].ctx = NoMessage THEN @ ELSE 1,
                       !.res = "ok"]>>
    /\ UNCHANGED <<config, pushed, dlq, fetch, job_ch, ack_ch, ackt, peer,
                   invoked, call, streams, consumers, ctor, factory, hb, closed>>

\* Ticks a handler has run, counted up to one more than ack_wait.
Elapsed(n) == IF n <= ack_wait THEN n + 1 ELSE n

\* One tick of time passes: the ack_wait of every pending delivery and the
\* wait of the progress ticker run down.  An ack_wait that ran out and a
\* ticker that is due are served first; an idle worker takes a request that
\* waits in the job channel, the fetch loop hands over the request it holds
\* and the ack task takes the response it was sent, within the tick; the
\* broker operations of Ack::ack may take longer.
Tick ==
    /\ \A m \in DOMAIN bmsg : bmsg[m].st = "inflight" => bmsg[m].timer > 0
    /\ hb.on => hb.left > 0
    /\ ~(job_ch # << >> /\ running = << >>)
    /\ ~(fetch.pc = "send" /\ Len(job_ch) < ChannelCap)
    /\ ack_ch = << >>
    /\ bmsg' = [m \in DOMAIN bmsg |->
                  IF bmsg[m].st = "inflight" THEN [bmsg[m] EXCEPT !.timer = @ - 1]
                  ELSE bmsg[m]]
    /\ hb' = IF hb.on THEN [hb EXCEPT !.left = @ - 1, !.ran = Elapsed(@)] ELSE hb
    /\ UNCHANGED <<config, pushed, dlq, fetch, job_ch, running, ack_ch, ackt, peer,
                   invoked, call, streams, consumers, ctor, factory, closed>>

\* The ack_wait of a delivery ran out after ack_wait ticks without a signal.
Timeout(m) == bmsg[m].timer = 0 /\ Expire(m)

Timeouts == \E m \in DOMAIN bmsg : Timeout(m)

\* ------------------------------------------------------------ heartbeat layer

\* NatsContext::start_progress_heartbeat(interval): a ticker that sends
\* AckKind::Progress every interval is spawned for a context that carries a
\* message, and the returned guard cancels it when dropped.  `first` is the
\* wait before the first signal: none, or one interval.  m, d0 and ran record
\* the message, its delivery count at the start and the ticks run since.
start_progress_heartbeat(ctx, first) ==
    IF ctx = NoMessage THEN HbOff
    ELSE [on |-> TRUE, left |-> first, m |-> ctx.m,
          d0 |-> bmsg[ctx.m].delivered, ran |-> 0]

\* ProgressHeartbeatService::call: the ticker is started, then the wrapped
\* handler is called with the request.
HeartbeatCall ==
    /\ job_ch # << >>
    /\ running = << >>
    /\ \E first \in {0, interval} :
         hb' = start_progress_heartbeat(Head(job_ch), first)
    /\ running' = <<[ctx |-> Head(job_ch), signals |-> 0, progress |-> 0,
                    res |-> "none"]>>
    /\ job_ch' = Tail(job_ch)
    /\ invoked' = [invoked EXCEPT ![Head(job_ch).m] = @ + 1]
    /\ UNCHANGED <<config, bmsg, pushed, dlq, fetch, ack_ch, ackt, peer, call,
                   streams, consumers, ctor, factory, closed>>

\* The ticker task is due: one in-progress signal is sent for the message of
\* the request and the next one is due after interval.
HeartbeatTick ==
    /\ hb.on
    /\ hb.left = 0
    /\ bmsg' = [bmsg EXCEPT ![hb.m] = BrokerProgress(@)]
    /\ hb' = [hb EXCEPT !.left = interval]
    /\ running' = IF running = << >> THEN running
                  ELSE <<[running[1] EXCEPT !.progress = 1]>>
    /\ UNCHANGED <<config, pushed, dlq, fetch, job_ch, ack_ch, ackt, peer,
                   invoked, call, streams, consumers, ctor, factory, closed>>

\* The ways a wrapped handler ends: it returns Ok, a transient error or
\* Error::Abort, or it panics.
Exit == {"ok", "transient", "abort", "panic"}

\* catch_panic turns a panic of the handler into Error::Abort.
catch_panic(exit) == IF exit = "panic" THEN "abort" ELSE exit

\* Variant: the guard is forgotten when the handler panics, so the ticker of
\* the request keeps running.
HeartbeatReturn_leak(exit) ==
    /\ running # << >>
    /\ Len(ack_ch) < ChannelCap
    /\ ack_ch' = Append(ack_ch, [ctx |-> running[1].ctx,
                                 outcome |-> catch_panic(exit),
                                 signals |-> running[1].signals,
                                 progress |-> running[1].progress])
    /\ running' = << >>
    /\ hb' = IF exit = "panic" THEN hb ELSE HbOff
    /\ UNCHANGED <<config, bmsg, pushed, dlq, fetch, job_ch, ackt, peer,
                   invoked, call, streams, consumers, ctor, factory, closed>>

\* The wrapped handler ends: `_guard` goes out of scope on every exit path of
\* the future, which cancels the ticker, and the AckLayer sends the response
\* on the ack channel.
\* Variant: the guard is dropped only when the handler returns Ok(()).
HeartbeatReturn_detached(exit) ==
    /\ running # << >>
    /\ Len(ack_ch) < ChannelCap
    /\ ack_ch' = Append(ack_ch, [ctx |-> running[1].ctx,
                                 outcome |-> catch_panic(exit),
                                 signals |-> running[1].signals,
                                 progress |-> running[1].progress])
    /\ running' = << >>
    /\ hb' = IF exit = "ok" THEN HbOff ELSE hb
    /\ UNCHANGED <<config, bmsg, pushed, dlq, fetch, job_ch, ackt, peer,
                   invoked, call, streams, consumers, ctor, factory, closed>>

HeartbeatReturn(exit) ==
    /\ running # << >>
    /\ Len(ack_ch) < ChannelCap
    /\ ack_ch' = Append(ack_ch, [ctx |-> running[1].ctx,
                                 outcome |-> catch_panic(exit),
                                 signals |-> running[1].signals,
                                 progress |-> running[1].progress])
    /\ running' = << >>
    /\ hb' = HbOff
    /\ UNCHANGED <<config, bmsg, pushed, dlq, fetch, job_ch, ackt, peer,
                   invoked, call, streams, consumers, ctor, factory, closed>>

\* ---------------------------------------------------------------- ack task

\* Variant: the delivery count must exceed max_deliver (off by one).
should_dlq_exceeds(e, delivered) ==
    IF e = "abort" THEN TRUE ELSE delivered > max_deliver

\* Variant: only the delivery count decides, an abort is not special.
should_dlq_count_only(e, delivered) == delivered >= max_deliver

\* Ack::ack, Err branch: an abort goes to the DLQ at once, any other error
\* once the delivery count reached max_deliver.
should_dlq(e, delivered) ==
    IF e = "abort" THEN TRUE ELSE delivered >= max_deliver

dlq_reason(e) == IF e = "abort" THEN "abort_error" ELSE "max_deliver_exceeded"

\* The JSON document published to {namespace}.dlq.
dlq_job(ctx, e) ==
    [original_task_id |-> ctx.m,
     delivered_count  |-> ctx.delivered,
     dlq_reason       |-> dlq_reason(e)]

\* The delay the transient branch passes with its nak: AckKind::Nak(None).
NakDelay(delivered) == 0

\* Variant: an abort without DLQ routing is naked like any other error.
AckRoute_abort_naked(ctx, o, enable_dlq) ==
    IF ctx = NoMessage THEN "done"
    ELSE IF o = "ok" THEN "ack"
    ELSE IF (o = "abort" \/ ctx.delivered >= max_deliver) /\ enable_dlq THEN "dlq_send"
    ELSE "nak"

\* Variant: the delivery count is tested before the outcome.
AckRoute_count_first(ctx, o, enable_dlq) ==
    IF ctx = NoMessage THEN "done"
    ELSE IF (o = "abort" \/ ctx.delivered >= max_deliver) /\ enable_dlq THEN "dlq_send"
    ELSE IF o = "ok" THEN "ack"
    ELSE IF o = "abort" THEN "term"
    ELSE "nak"

\* Variant: a record is routed by its outcome whether or not its context
\* carries a message.
AckRoute_unguarded(ctx, o, enable_dlq) ==
    IF o = "ok" THEN "ack"
    ELSE IF should_dlq(o, ctx.delivered) /\ enable_dlq THEN "dlq_send"
    ELSE IF o = "abort" THEN "term"
    ELSE "nak"

\* The first broker operation Ack::ack awaits for a record.
AckRoute(ctx, o, enable_dlq) ==
    IF ctx = NoMessage THEN "done"
    ELSE IF o = "ok" THEN "ack"
    ELSE IF should_dlq(o, ctx.delivered) /\ enable_dlq THEN "dlq_send"
    ELSE IF o = "abort" THEN "term"
    ELSE "nak"

AckIdle ==
    [pc |-> "idle", ctx |-> NoMessage, outcome |-> "ok", ops |-> << >>,
     res |-> "none", dlq0 |-> 0, delay |-> 0, signals |-> 0, progress |-> 0]

\* Ack::ack returns after broker operation op with result r.
AckReturn(a, op, r) ==
    [a EXCEPT !.pc = "done", !.ops = Append(@, op), !.res = r]

\* A terminal signal of Ack::ack reached the broker.
AckSignal(a, op) ==
    [AckReturn(a, op, "ok") EXCEPT !.signals = Signalled(@)]

\* while let Some((ctx, resp)) = ack_rx.next().await: the ack task takes the
\* next record and Ack::ack runs up to its first broker operation.
AckRecv ==
    /\ ackt.pc = "idle"
    /\ ack_ch # << >>
    /\ LET rec == Head(ack_ch)
           pc  == AckRoute(rec.ctx, rec.outcome, config.enable_dlq) IN
         ackt' = [pc |-> pc, ctx |-> rec.ctx, outcome |-> rec.outcome,
                  ops |-> << >>, res |-> IF pc = "done" THEN "ok" ELSE "none",
                  dlq0 |-> Len(dlq), delay |-> 0, signals |-> rec.signals,
                  progress |-> rec.progress]
    /\ ack_ch' = Tail(ack_ch)
    /\ UNCHANGED <<config, bmsg, pushed, dlq, fetch, job_ch, running, peer,
                   invoked, call, streams, consumers, ctor, factory, hb, closed>>

\* Ok(_): msg.ack().
AckSuccess ==
    /\ ackt.pc = "ack"
    /\ bmsg' = [bmsg EXCEPT ![ackt.ctx.m] = BrokerAck(@)]
    /\ ackt' = AckSignal(ackt, "ack")
    /\ UNCHANGED <<config, pushed, dlq, fetch, job_ch, running, ack_ch, peer,
                   invoked, call, streams, consumers, ctor, factory, hb, closed>>

\* jetstream.publish(dlq_subject, body).await succeeded: the publish is on its
\* way, the server acknowledgement is awaited next.
AckDlqSend ==
    /\ ackt.pc = "dlq_send"
    /\ ackt' = [ackt EXCEPT !.pc = "dlq_wait", !.ops = Append(@, "dlq_send")]
    /\ UNCHANGED <<config, bmsg, pushed, dlq, fetch, job_ch, running, ack_ch,
                   peer, invoked, call, streams, consumers, ctor, factory, hb, closed>>

\* The broker stored the DLQ envelope and acknowledged the publish.
AckDlqPubAck ==
    /\ ackt.pc = "dlq_wait"
    /\ dlq' = Append(dlq, dlq_job(ackt.ctx, ackt.outcome))
    /\ ackt' = [ackt EXCEPT !.pc = "dlq_ack", !.ops = Append(@, "dlq_puback")]
    /\ UNCHANGED <<config, bmsg, pushed, fetch, job_ch, running, ack_ch,
                   peer, invoked, call, streams, consumers, ctor, factory, hb, closed>>

\* After the DLQ publish: msg.ack() removes the original message.
AckDlqAck ==
    /\ ackt.pc = "dlq_ack"
    /\ bmsg' = [bmsg EXCEPT ![ackt.ctx.m] = BrokerAck(@)]
    /\ ackt' = AckSignal(ackt, "ack")
    /\ UNCHANGED <<config, pushed, dlq, fetch, job_ch, running, ack_ch, peer,
                   invoked, call, streams, consumers, ctor, factory, hb, closed>>

\* Abort without DLQ routing: msg.ack_with(AckKind::Term).
AckTerm ==
    /\ ackt.pc = "term"
    /\ bmsg' = [bmsg EXCEPT ![ackt.ctx.m] = BrokerTerm(@)]
    /\ ackt' = AckSignal(ackt, "term")
    /\ UNCHANGED <<config, pushed, dlq, fetch, job_ch, running, ack_ch, peer,
                   invoked, call, streams, consumers, ctor, factory, hb, closed>>

\* Variant: a transient error is terminated instead of naked.
AckNak_term ==
    /\ ackt.pc = "nak"
    /\ bmsg' = [bmsg EXCEPT ![ackt.ctx.m] = BrokerTerm(@)]
    /\ ackt' = AckSignal(ackt, "term")
    /\ UNCHANGED <<config, pushed, dlq, fetch, job_ch, running, ack_ch, peer,
                   invoked, call, streams, consumers, ctor, factory, hb, closed>>

\* Any other error without DLQ routing: msg.ack_with(AckKind::Nak(None)).
AckNak ==
    /\ ackt.pc = "nak"
    /\ bmsg' = [bmsg EXCEPT ![ackt.ctx.m] = BrokerNak(@)]
    /\ ackt' = [AckSignal(ackt, "nak") EXCEPT !.delay = NakDelay(ackt.ctx.delivered)]
    /\ UNCHANGED <<config, pushed, dlq, fetch, job_ch, running, ack_ch, peer,
                   invoked, call, streams, consumers, ctor, factory, hb, closed>>

\* Variant: a failed DLQ publish is only logged and the original is acked.
AckDlqPublishFail_ignored ==
    /\ ackt.pc \in {"dlq_send", "dlq_wait"}
    /\ ackt' = [ackt EXCEPT !.pc = "dlq_ack", !.ops = Append(@, "fail")]
    /\ UNCHANGED <<config, bmsg, pushed, dlq, fetch, job_ch, running, ack_ch,
                   peer, invoked, call, streams, consumers, ctor, factory, hb, closed>>

\* The DLQ publish fails at the send or at the server-ack stage: `?` returns
\* the Nats error, the original message gets no signal.
AckDlqPublishFail ==
    /\ ackt.pc \in {"dlq_send", "dlq_wait"}
    /\ ackt' = AckReturn(ackt, "fail", "err")
    /\ UNCHANGED <<config, bmsg, pushed, dlq, fetch, job_ch, running, ack_ch,
                   peer, invoked, call, streams, consumers, ctor, factory, hb, closed>>

\* msg.ack() or msg.ack_with(..) fails: `?` returns the Nats error, the signal
\* did not reach the broker.
AckSignalFail ==
    /\ ackt.pc \in {"ack", "dlq_ack", "term", "nak"}
    /\ ackt' = AckReturn(ackt, "fail", "err")
    /\ UNCHANGED <<config, bmsg, pushed, dlq, fetch, job_ch, running, ack_ch,
                   peer, invoked, call, streams, consumers, ctor, factory, hb, closed>>

\* Variant: a delivery whose metadata cannot be read is naked.
AckInfoFail_naks ==
    /\ ackt.pc = "idle"
    /\ ack_ch # << >>
    /\ Head(ack_ch).ctx # NoMessage
    /\ Head(ack_ch).outcome # "ok"
    /\ LET rec == Head(ack_ch) IN
         ackt' = [pc |-> "done", ctx |-> rec.ctx, outcome |-> rec.outcome,
                  ops |-> << >>, res |-> "err", dlq0 |-> Len(dlq), delay |-> 0,
                  signals |-> rec.signals, progress |-> rec.progress]
    /\ ack_ch' = Tail(ack_ch)
    /\ bmsg' = [bmsg EXCEPT ![Head(ack_ch).ctx.m] = BrokerNak(@)]
    /\ UNCHANGED <<config, pushed, dlq, fetch, job_ch, running, peer,
                   invoked, call, streams, consumers, ctor, factory, hb, closed>>

\* The ack task takes the record of a failed handler and msg.info() is Err:
\* the ? returns the error from Ack::ack before anything is sent.
AckInfoFail ==
    /\ ackt.pc = "idle"
    /\ ack_ch # << >>
    /\ Head(ack_ch).ctx # NoMessage
    /\ Head(ack_ch).outcome # "ok"
    /\ LET rec == Head(ack_ch) IN
         ackt' = [pc |-> "done", ctx |-> rec.ctx, outcome |-> rec.outcome,
                  ops |-> << >>, res |-> "err", dlq0 |-> Len(dlq), delay |-> 0,
                  signals |-> rec.signals, progress |-> rec.progress]
    /\ ack_ch' = Tail(ack_ch)
    /\ UNCHANGED <<config, bmsg, pushed, dlq, fetch, job_ch, running, peer,
                   invoked, call, streams, consumers, ctor, factory, hb, closed>>

\* Variant: the ack task ends when Ack::ack returned an error.
AckLoop_stops ==
    /\ ackt.pc = "done"
    /\ ackt' = IF ackt.res = "err" THEN [AckIdle EXCEPT !.pc = "exited"] ELSE AckIdle
    /\ UNCHANGED <<config, bmsg, pushed, dlq, fetch, job_ch, running, ack_ch,
                   peer, invoked, call, streams, consumers, ctor, factory, hb, closed>>

\* Ack::ack has returned: the ack task logs an error result and waits for the
\* next record; the context is dropped.
AckLoop ==
    /\ ackt.pc = "done"
    /\ ackt' = AckIdle
    /\ UNCHANGED <<config, bmsg, pushed, dlq, fetch, job_ch, running, ack_ch,
                   peer, invoked, call, streams, consumers, ctor, factory, hb, closed>>

\* The worker's service is dropped once the job stream is gone and no handler
\* runs: the AckLayer and with it the last ack_tx go, which closes the ack
\* channel behind the records already in it.
DropAckTx ==
    /\ closed.job_rx
    /\ ~closed.ack_tx
    /\ running = << >>
    /\ closed' = [closed EXCEPT !.ack_tx = TRUE]
    /\ UNCHANGED <<config, bmsg, pushed, dlq, fetch, job_ch, running, ack_ch, ackt,
                   peer, invoked, call, streams, consumers, ctor, factory, hb>>

\* ack_rx.next().await yields None, since the channel is closed and drained:
\* the while-let loop and the ack task end.
AckExit ==
    /\ ackt.pc = "idle"
    /\ ack_ch = << >>
    /\ closed.ack_tx
    /\ ackt' = [ackt EXCEPT !.pc = "exited"]
    /\ UNCHANGED <<config, bmsg, pushed, dlq, fetch, job_ch, running, ack_ch,
                   peer, invoked, call, streams, consumers, ctor, factory, hb, closed>>

\* ----------------------------------------------------------- storage calls

\* The calls below model the storage API stage by stage, one caller at a time;
\* push_with_priority(p) above is a whole successful call in one step.

\* The number of messages in the stream of priority p (info.state.messages).
StreamCount(p) ==
    Cardinality({m \in DOMAIN bmsg : bmsg[m].prio = p /\ InStream(bmsg[m])})

\* What the caller can observe of the broker: the message counts of the three
\* priority streams and of the DLQ stream.
Streams == [s \in Priority \cup {"dlq"} |->
              IF s = "dlq" THEN Len(dlq) ELSE StreamCount(s)]

\* The producer is in no storage call. `before` is the broker as the call
\* found it, `failed` is the stage of the call that failed, `ret` and `val`
\* are what the call returned.
CallIdle ==
    [op |-> "none", pc |-> "idle", p |-> "none", id |-> 0, idx |-> 1,
     total |-> 0, before |-> << >>, failed |-> "none", ret |-> "none",
     val |-> 0]

\* Variant: the default priority is Low.
Priority_default_low == "low"

\* #[default] of the Priority enum.
Priority_default == "medium"

\* push_with_priority (op = "push_with_priority") or, through push_request,
\* push_with_priority(req.args, Priority::default()): a fresh TaskId and the
\* envelope around the job.
push_call(op, p) ==
    /\ call.pc = "idle"
    /\ pushed + 1 \in DOMAIN bmsg
    /\ call' = [CallIdle EXCEPT !.op = op, !.pc = "build", !.p = p,
                                !.id = pushed + 1, !.before = Streams]
    /\ UNCHANGED <<config, bmsg, pushed, dlq, fetch, job_ch, running, ack_ch, ackt,
                   peer, invoked, streams, consumers, ctor, factory, hb, closed>>

push_request == push_call("push_request", Priority_default)

\* serde_json::to_vec(&nats_job) is Ok: the payload and the subject are ready.
push_serialized ==
    /\ call.pc = "build"
    /\ call' = [call EXCEPT !.pc = "send"]
    /\ UNCHANGED <<config, bmsg, pushed, dlq, fetch, job_ch, running, ack_ch, ackt,
                   peer, invoked, streams, consumers, ctor, factory, hb, closed>>

\* serde_json::to_vec(&nats_job) is Err: `?` returns Serialization.
push_serialize_fail ==
    /\ call.pc = "build"
    /\ call' = [call EXCEPT !.pc = "done", !.failed = "serialize",
                            !.ret = "serialization_err"]
    /\ UNCHANGED <<config, bmsg, pushed, dlq, fetch, job_ch, running, ack_ch, ackt,
                   peer, invoked, streams, consumers, ctor, factory, hb, closed>>

\* Variant: the call returns the id as soon as the publish is sent, without
\* awaiting the server acknowledgement.
publish_sent_no_await ==
    /\ call.pc = "send"
    /\ call.op \in {"push_with_priority", "push_request"}
    /\ call' = [call EXCEPT !.pc = "done", !.ret = "ok", !.val = call.id]
    /\ UNCHANGED <<config, bmsg, pushed, dlq, fetch, job_ch, running, ack_ch, ackt,
                   peer, invoked, streams, consumers, ctor, factory, hb, closed>>

\* publish_with_headers(..).await is Ok: the publish is sent, the server
\* acknowledgement is awaited next.
publish_sent ==
    /\ call.pc = "send"
    /\ call.op \in {"push_with_priority", "push_request"}
    /\ call' = [call EXCEPT !.pc = "wait"]
    /\ UNCHANGED <<config, bmsg, pushed, dlq, fetch, job_ch, running, ack_ch, ackt,
                   peer, invoked, streams, consumers, ctor, factory, hb, closed>>

\* The broker appends the message to the stream of the subject.
publish_stored ==
    /\ call.pc = "wait"
    /\ pushed' = pushed + 1
    /\ bmsg' = [bmsg EXCEPT ![call.id] =
                  [prio |-> call.p, st |-> "avail", delivered |-> 0,
                   timer |-> 0, payload |-> "job"]]
    /\ call' = [call EXCEPT !.pc = "stored"]
    /\ UNCHANGED <<config, dlq, fetch, job_ch, running, ack_ch, ackt, peer, invoked,
            streams, consumers, ctor, factory, hb, closed>>

\* The server acknowledgement arrives: push_with_priority returns Ok(task_id);
\* push_request goes on to build the parts.
publish_acked ==
    /\ call.pc = "stored"
    /\ call' = IF call.op = "push_request"
                  THEN [call EXCEPT !.pc = "parts", !.val = call.id]
                  ELSE [call EXCEPT !.pc = "done", !.ret = "ok", !.val = call.id]
    /\ UNCHANGED <<config, bmsg, pushed, dlq, fetch, job_ch, running, ack_ch, ackt,
                   peer, invoked, streams, consumers, ctor, factory, hb, closed>>

\* push_request: parts.task_id = task_id, parts.context = NatsContext::default().
push_request_parts ==
    /\ call.pc = "parts"
    /\ call' = [call EXCEPT !.pc = "done", !.ret = "ok",
                            !.val = [task_id |-> call.val, context |-> NoMessage]]
    /\ UNCHANGED <<config, bmsg, pushed, dlq, fetch, job_ch, running, ack_ch, ackt,
                   peer, invoked, streams, consumers, ctor, factory, hb, closed>>

\* The send stage fails: map_err(NatsPollError::Nats) and `?`.
publish_send_fail ==
    /\ call.pc = "send"
    /\ call.op \in {"push_with_priority", "push_request"}
    /\ call' = [call EXCEPT !.pc = "done", !.failed = "send", !.ret = "nats_err"]
    /\ UNCHANGED <<config, bmsg, pushed, dlq, fetch, job_ch, running, ack_ch, ackt,
                   peer, invoked, streams, consumers, ctor, factory, hb, closed>>

\* The server-ack stage fails, whether the broker stored the message or not.
publish_ack_fail ==
    /\ call.pc \in {"wait", "stored"}
    /\ call' = [call EXCEPT !.pc = "done", !.failed = "ack", !.ret = "nats_err"]
    /\ UNCHANGED <<config, bmsg, pushed, dlq, fetch, job_ch, running, ack_ch, ackt,
                   peer, invoked, streams, consumers, ctor, factory, hb, closed>>

\* `total as i64` of a u64: the value itself for every count below 2^63, and
\* a stream count here is at most the number of messages pushed.
as_i64(n) == n

\* len (op = "len") or, through is_empty, self.len(): total = 0 and the loop
\* over [High, Medium, Low] starts.
len_call(op) ==
    /\ call.pc = "idle"
    /\ call' = [CallIdle EXCEPT !.op = op, !.pc = "read", !.before = Streams]
    /\ UNCHANGED <<config, bmsg, pushed, dlq, fetch, job_ch, running, ack_ch, ackt,
                   peer, invoked, streams, consumers, ctor, factory, hb, closed>>

\* The loop of len is over: Ok(total as i64); is_empty compares it with 0.
len_result(c) ==
    IF c.idx <= Len(PriorityOrder) THEN c
    ELSE [c EXCEPT !.pc = "done", !.ret = "ok",
                   !.val = IF c.op = "is_empty" THEN as_i64(c.total) = 0
                           ELSE as_i64(c.total)]

\* get_stream and stream.info() are Ok: total += info.state.messages.
len_read ==
    /\ call.op \in {"len", "is_empty"}
    /\ call.pc = "read"
    /\ call' = len_result([call EXCEPT
                   !.total = @ + StreamCount(PriorityOrder[call.idx]),
                   !.idx = @ + 1])
    /\ UNCHANGED <<config, bmsg, pushed, dlq, fetch, job_ch, running, ack_ch, ackt,
                   peer, invoked, streams, consumers, ctor, factory, hb, closed>>

\* get_stream is Err (continue) or stream.info() is Err: the stream is skipped.
len_skip ==
    /\ call.op \in {"len", "is_empty"}
    /\ call.pc = "read"
    /\ call' = len_result([call EXCEPT !.idx = @ + 1])
    /\ UNCHANGED <<config, bmsg, pushed, dlq, fetch, job_ch, running, ack_ch, ackt,
                   peer, invoked, streams, consumers, ctor, factory, hb, closed>>

\* The caller has the result and is free for its next call.
call_return ==
    /\ call.pc = "done"
    /\ call' = CallIdle
    /\ UNCHANGED <<config, bmsg, pushed, dlq, fetch, job_ch, running, ack_ch, ackt,
                   peer, invoked, streams, consumers, ctor, factory, hb, closed>>

\* `info.state.messages as usize`: the value itself on a 64-bit target.
as_usize(n) == n

\* BackendExpose::stats: pending = 0, failed = 0, and the loop over
\* [High, Medium, Low] starts.
stats ==
    /\ call.pc = "idle"
    /\ call' = [CallIdle EXCEPT !.op = "stats", !.pc = "read", !.before = Streams,
                                !.val = [pending |-> 0, running |-> 0, dead |-> 0,
                                         failed |-> 0, success |-> 0]]
    /\ UNCHANGED <<config, bmsg, pushed, dlq, fetch, job_ch, running, ack_ch, ackt,
                   peer, invoked, streams, consumers, ctor, factory, hb, closed>>

\* The loop of stats is over: the DLQ stream is read when enable_dlq is set,
\* then Ok(Stat {pending, running: 0, dead: 0, failed, success}).
stats_result(c) ==
    IF c.idx <= Len(PriorityOrder) THEN c
    ELSE IF config.enable_dlq THEN [c EXCEPT !.pc = "read_dlq"]
    ELSE [c EXCEPT !.pc = "done", !.ret = "ok"]

\* get_stream and stream.info() are Ok: pending += info.state.messages.
stats_read ==
    /\ call.op = "stats" /\ call.pc = "read"
    /\ call' = stats_result([call EXCEPT
                   !.val.pending = @ + as_usize(StreamCount(PriorityOrder[call.idx])),
                   !.idx = @ + 1])
    /\ UNCHANGED <<config, bmsg, pushed, dlq, fetch, job_ch, running, ack_ch, ackt,
                   peer, invoked, streams, consumers, ctor, factory, hb, closed>>

\* get_stream or stream.info() is Err: the `if let Ok(..)` guards skip the
\* stream.
stats_skip ==
    /\ call.op = "stats" /\ call.pc = "read"
    /\ call' = stats_result([call EXCEPT !.idx = @ + 1])
    /\ UNCHANGED <<config, bmsg, pushed, dlq, fetch, job_ch, running, ack_ch, ackt,
                   peer, invoked, streams, consumers, ctor, factory, hb, closed>>

\* The DLQ stream is read: failed = info.state.messages.
stats_read_dlq ==
    /\ call.op = "stats" /\ call.pc = "read_dlq"
    /\ call' = [call EXCEPT !.pc = "done", !.ret = "ok",
                            !.val.failed = as_usize(Len(dlq))]
    /\ UNCHANGED <<config, bmsg, pushed, dlq, fetch, job_ch, running, ack_ch, ackt,
                   peer, invoked, streams, consumers, ctor, factory, hb, closed>>

\* The DLQ stream lookup or its info call is Err: failed stays 0.
stats_skip_dlq ==
    /\ call.op = "stats" /\ call.pc = "read_dlq"
    /\ call' = [call EXCEPT !.pc = "done", !.ret = "ok"]
    /\ UNCHANGED <<config, bmsg, pushed, dlq, fetch, job_ch, running, ack_ch, ackt,
                   peer, invoked, streams, consumers, ctor, factory, hb, closed>>

\* A storage call that returns at once, with no broker operation.
returns(op, ret, val) ==
    /\ call.pc = "idle"
    /\ call' = [CallIdle EXCEPT !.op = op, !.pc = "done", !.before = Streams,
                                !.ret = ret, !.val = val]
    /\ UNCHANGED <<config, bmsg, pushed, dlq, fetch, job_ch, running, ack_ch, ackt,
                   peer, invoked, streams, consumers, ctor, factory, hb, closed>>

\* Variant: the raw request is published to the default priority stream.
push_raw_request_publishes ==
    /\ call.pc = "idle"
    /\ pushed + 1 \in DOMAIN bmsg
    /\ pushed' = pushed + 1
    /\ bmsg' = [bmsg EXCEPT ![pushed + 1] =
                  [prio |-> Priority_default, st |-> "avail", delivered |-> 0,
                   timer |-> 0, payload |-> "job"]]
    /\ call' = [CallIdle EXCEPT !.op = "push_raw_request", !.pc = "done",
                                !.before = Streams, !.ret = "ok",
                                !.val = pushed + 1]
    /\ UNCHANGED <<config, dlq, fetch, job_ch, running, ack_ch, ackt, peer, invoked,
            streams, consumers, ctor, factory, hb, closed>>

\* Err(NatsPollError::Storage("Raw requests not supported")).
push_raw_request == returns("push_raw_request", "storage_err", 0)

\* Err(NatsPollError::Storage("Scheduling not yet implemented")).
schedule_request == returns("schedule_request", "storage_err", 0)

\* Ok(None): streams have no lookup by id.
fetch_by_id == returns("fetch_by_id", "ok", "none")

\* Err(NatsPollError::Storage("Updates not supported")).
update == returns("update", "storage_err", 0)

\* Err(NatsPollError::Storage("Rescheduling not yet implemented")).
reschedule == returns("reschedule", "storage_err", 0)

\* Ok(vec![]).
list_jobs == returns("list_jobs", "ok", << >>)

\* ------------------------------------------------------------ provisioning

\* The streams of the broker that carry the name n.
Named(n) == {i \in 1..Len(streams) : streams[i].name = n}

\* Variant: the broker adds a stream for every create request.
create_stream_appends(ss, cfg) == Append(ss, cfg)

\* The broker's answer to a create request: a stream is added unless one of
\* that name exists already (a create with the configuration of the existing
\* stream succeeds and changes nothing).
create_stream(ss, cfg) ==
    IF \E i \in 1..Len(ss) : ss[i].name = cfg.name THEN ss ELSE Append(ss, cfg)

\* new_with_config is called: the JetStream context is made and the loop over
\* the streams begins.
new_with_config(c) ==
    /\ ctor[c].pc \in {"idle", "done"}
    /\ ctor' = [ctor EXCEPT ![c] = [CtorIdle EXCEPT !.pc = "info"]]
    /\ UNCHANGED streams
    /\ UNCHANGED <<config, bmsg, pushed, dlq, fetch, job_ch, running, ack_ch, ackt,
                   peer, invoked, call, consumers, factory, hb, closed>>

\* Ok(_) of get_or_create_stream: on to the next stream, then to the DLQ
\* stream when enable_dlq is set, then Ok(Self {..}).
stream_ready(r) ==
    IF r.idx < Len(StreamConfigs(config))
        THEN [r EXCEPT !.pc = "info", !.idx = @ + 1]
        ELSE [r EXCEPT !.pc = "done", !.ret = "ok"]

\* get_or_create_stream asks for the stream: it exists, or it is not found
\* and a create request follows.
stream_info(c) ==
    /\ ctor[c].pc = "info"
    /\ ctor' = [ctor EXCEPT ![c] =
                  IF Named(StreamConfigs(config)[ctor[c].idx].name) # {}
                      THEN stream_ready(@)
                      ELSE [@ EXCEPT !.pc = "create"]]
    /\ UNCHANGED streams
    /\ UNCHANGED <<config, bmsg, pushed, dlq, fetch, job_ch, running, ack_ch, ackt,
                   peer, invoked, call, consumers, factory, hb, closed>>

\* get_or_create_stream sends the create request and the broker answers Ok.
stream_create(c) ==
    /\ ctor[c].pc = "create"
    /\ streams' = create_stream(streams, StreamConfigs(config)[ctor[c].idx])
    /\ ctor' = [ctor EXCEPT ![c] = stream_ready(@)]
    /\ UNCHANGED <<config, bmsg, pushed, dlq, fetch, job_ch, running, ack_ch, ackt,
                   peer, invoked, call, consumers, factory, hb, closed>>

\* Variant: a failed stream creation is logged and the loop goes on.
stream_fail_logged(c) ==
    /\ ctor[c].pc \in {"info", "create"}
    /\ ctor' = [ctor EXCEPT ![c] = stream_ready([@ EXCEPT !.failed = TRUE])]
    /\ UNCHANGED streams
    /\ UNCHANGED <<config, bmsg, pushed, dlq, fetch, job_ch, running, ack_ch, ackt,
                   peer, invoked, call, consumers, factory, hb, closed>>

\* Err(e) of get_or_create_stream: the error is logged and
\* Err(NatsPollError::Nats(..)) is returned, no storage is built.
stream_fail(c) ==
    /\ ctor[c].pc \in {"info", "create"}
    /\ ctor' = [ctor EXCEPT ![c] =
                  [@ EXCEPT !.pc = "done", !.failed = TRUE, !.ret = "nats_err"]]
    /\ UNCHANGED streams
    /\ UNCHANGED <<config, bmsg, pushed, dlq, fetch, job_ch, running, ack_ch, ackt,
                   peer, invoked, call, consumers, factory, hb, closed>>

\* ---------------------------------------------------------- consumer factory

\* The consumers of the broker that carry the name n.
ConsumersNamed(n) == {i \in 1..Len(consumers) : consumers[i].name = n}

\* Variant: the broker adds a consumer for every create request.
create_consumer_appends(cs, cfg) == Append(cs, cfg)

\* The broker's answer to a create request for a durable consumer: one is
\* added unless the stream has a consumer of that name already.
create_consumer(cs, cfg) ==
    IF \E i \in 1..Len(cs) : cs[i].name = cfg.name /\ cs[i].stream = cfg.stream
        THEN cs ELSE Append(cs, cfg)

\* get_or_create_consumer(priority), called by the fetch loop of worker w: the
\* consumer name and configuration are built and the stream is asked for.
get_or_create_consumer(w, p) ==
    /\ factory[w].pc = "idle"
    /\ factory' = [factory EXCEPT ![w] = [FactoryIdle EXCEPT !.pc = "stream", !.p = p]]
    /\ UNCHANGED consumers
    /\ UNCHANGED <<config, bmsg, pushed, dlq, fetch, job_ch, running, ack_ch, ackt,
                   peer, invoked, call, streams, ctor, hb, closed>>

\* jetstream.get_stream(stream_name) is Ok: stream.get_or_create_consumer
\* asks for the consumer next.
consumer_stream(w) ==
    /\ factory[w].pc = "stream"
    /\ Named(get_stream_name(factory[w].p)) # {}
    /\ factory' = [factory EXCEPT ![w].pc = "info"]
    /\ UNCHANGED consumers
    /\ UNCHANGED <<config, bmsg, pushed, dlq, fetch, job_ch, running, ack_ch, ackt,
                   peer, invoked, call, streams, ctor, hb, closed>>

\* The consumer is looked up by name: it exists and is returned as it is, or
\* it is not found and a create request follows.
consumer_info(w) ==
    /\ factory[w].pc = "info"
    /\ factory' = [factory EXCEPT ![w] =
                     IF ConsumersNamed(consumer_config(factory[w].p).name) # {}
                         THEN [@ EXCEPT !.pc = "done", !.ret = "ok"]
                         ELSE [@ EXCEPT !.pc = "create"]]
    /\ UNCHANGED consumers
    /\ UNCHANGED <<config, bmsg, pushed, dlq, fetch, job_ch, running, ack_ch, ackt,
                   peer, invoked, call, streams, ctor, hb, closed>>

\* The create request is answered Ok: the consumer is returned.
consumer_create(w) ==
    /\ factory[w].pc = "create"
    /\ consumers' = create_consumer(consumers, consumer_config(factory[w].p))
    /\ factory' = [factory EXCEPT ![w] = [@ EXCEPT !.pc = "done", !.ret = "ok"]]
    /\ UNCHANGED <<config, bmsg, pushed, dlq, fetch, job_ch, running, ack_ch, ackt,
                   peer, invoked, call, streams, ctor, hb, closed>>

\* get_stream or get_or_create_consumer is Err: map_err(NatsPollError::Nats).
consumer_fail(w) ==
    /\ factory[w].pc \in {"stream", "info", "create"}
    /\ factory' = [factory EXCEPT ![w] = [@ EXCEPT !.pc = "done", !.ret = "nats_err"]]
    /\ UNCHANGED consumers
    /\ UNCHANGED <<config, bmsg, pushed, dlq, fetch, job_ch, running, ack_ch, ackt,
                   peer, invoked, call, streams, ctor, hb, closed>>

\* The fetch loop has the result: it pulls from the consumer, or skips the
\* priority on Err, and goes on.
consumer_used(w) ==
    /\ factory[w].pc = "done"
    /\ factory' = [factory EXCEPT ![w] = FactoryIdle]
    /\ UNCHANGED consumers
    /\ UNCHANGED <<config, bmsg, pushed, dlq, fetch, job_ch, running, ack_ch, ackt,
                   peer, invoked, call, streams, ctor, hb, closed>>

\* ------------------------------------------------------------ second worker

\* poll for a second worker: its own job channel, ack channel and fetch loop.
PeerInit ==
    [fetch   |-> [pc |-> "poll", idx |-> 1, held |-> NoMessage],
     job_ch  |-> << >>,
     running |-> << >>,
     ack_ch  |-> << >>]

\* Variant: the second worker's consumer does not hold back a message while a
\* delivery of it awaits its acknowledgement.
PeerAvailable_while_pending(p) ==
    {m \in DOMAIN bmsg : /\ bmsg[m].prio = p
                          /\ bmsg[m].st \in {"avail", "inflight"}
                          /\ bmsg[m].delivered < max_deliver}

\* get_or_create_consumer: the second worker's fetch loop asks for the same
\* durable consumer {namespace}_{priority}_consumer and pulls from it.
PeerAvailable(p) == Available(p)

PeerFetchPull ==
    /\ peer.fetch.pc = "poll"
    /\ PeerAvailable(PriorityOrder[peer.fetch.idx]) # {}
    /\ LET m == Min(PeerAvailable(PriorityOrder[peer.fetch.idx])) IN
         /\ bmsg' = [bmsg EXCEPT ![m] = BrokerDeliver(@)]
         /\ peer' = [peer EXCEPT !.fetch.pc = "send",
                                 !.fetch.held = with_message(m, bmsg[m].delivered + 1)]
    /\ UNCHANGED <<config, pushed, dlq, fetch, job_ch, running, ack_ch, ackt,
                   invoked, call, streams, consumers, ctor, factory, hb, closed>>

PeerFetchNone ==
    /\ peer.fetch.pc = "poll"
    /\ PeerAvailable(PriorityOrder[peer.fetch.idx]) = {}
    /\ peer' = [peer EXCEPT !.fetch.idx = NextIdx(@)]
    /\ UNCHANGED <<config, bmsg, pushed, dlq, fetch, job_ch, running, ack_ch, ackt,
                   invoked, call, streams, consumers, ctor, factory, hb, closed>>

PeerFetchSend ==
    /\ peer.fetch.pc = "send"
    /\ Len(peer.job_ch) < ChannelCap
    /\ peer' = [peer EXCEPT !.job_ch = Append(@, peer.fetch.held),
                            !.fetch = [pc |-> "poll", idx |-> 1, held |-> NoMessage]]
    /\ UNCHANGED <<config, bmsg, pushed, dlq, fetch, job_ch, running, ack_ch, ackt,
                   invoked, call, streams, consumers, ctor, factory, hb, closed>>

\* The second worker takes a request from its job stream and runs the handler.
PeerTake ==
    /\ peer.job_ch # << >>
    /\ peer.running = << >>
    /\ peer' = [peer EXCEPT !.running = <<[ctx |-> Head(peer.job_ch), signals |-> 0,
                                            progress |-> 0]>>,
                            !.job_ch = Tail(@)]
    /\ invoked' = [invoked EXCEPT ![Head(peer.job_ch).m] = @ + 1]
    /\ UNCHANGED <<config, bmsg, pushed, dlq, fetch, job_ch, running, ack_ch, ackt,
                   call, streams, consumers, ctor, factory, hb, closed>>

PeerReturn(o) ==
    /\ peer.running # << >>
    /\ Len(peer.ack_ch) < ChannelCap
    /\ peer' = [peer EXCEPT !.ack_ch = Append(@, [ctx |-> peer.running[1].ctx,
                                                  outcome |-> o,
                                                  signals |-> peer.running[1].signals,
                                                  progress |-> peer.running[1].progress]),
                            !.running = << >>]
    /\ UNCHANGED <<config, bmsg, pushed, dlq, fetch, job_ch, running, ack_ch, ackt,
                   invoked, call, streams, consumers, ctor, factory, hb, closed>>

\* The second worker's ack task takes a record and Ack::ack runs for it; its
\* broker operations succeed.
PeerAck ==
    /\ peer.ack_ch # << >>
    /\ LET rec   == Head(peer.ack_ch)
           route == AckRoute(rec.ctx, rec.outcome, config.enable_dlq) IN
         /\ bmsg' = IF route \in {"ack", "dlq_send"}
                       THEN [bmsg EXCEPT ![rec.ctx.m] = BrokerAck(@)]
                    ELSE IF route = "term"
                       THEN [bmsg EXCEPT ![rec.ctx.m] = BrokerTerm(@)]
                    ELSE IF route = "nak"
                       THEN [bmsg EXCEPT ![rec.ctx.m] = BrokerNak(@)]
                    ELSE bmsg
         /\ dlq' = IF route = "dlq_send"
                      THEN Append(dlq, dlq_job(rec.ctx, rec.outcome))
                   ELSE dlq
    /\ peer' = [peer EXCEPT !.ack_ch = Tail(@)]
    /\ UNCHANGED <<config, pushed, fetch, job_ch, running, ack_ch, ackt, invoked, call,
            streams, consumers, ctor, factory, hb, closed>>

\* ------------------------------------------------------------ specification

InitWith(cfgs) ==
    /\ config \in cfgs
    /\ bmsg = [m \in Jobs |-> Unpublished]
    /\ pushed = 0
    /\ dlq = << >>
    /\ fetch = [pc |-> "poll", idx |-> 1, held |-> NoMessage]
    /\ job_ch = << >>
    /\ running = << >>
    /\ ack_ch = << >>
    /\ ackt = AckIdle
    /\ peer = PeerInit
    /\ invoked = [m \in DOMAIN bmsg |-> 0]
    /\ call = CallIdle
    /\ streams = Provisioned(config)
    /\ consumers = SharedConsumers
    /\ ctor = [c \in Callers |-> CtorIdle]
    /\ factory = [w \in Workers |-> FactoryIdle]
    /\ hb = HbOff
    /\ closed = Open

\* A fresh storage with the DLQ enabled or not and every other Config field at
\* its default.
Init == InitWith([enable_dlq : BOOLEAN])

Producer == \E p \in Priority : push_with_priority(p)

FetchLoop == FetchPull \/ FetchNone \/ FetchSend

Worker == WorkerTake \/ \E o \in Outcome : HandlerReturn(o)

ContextOps == ctx_ack \/ ctx_nack \/ ctx_term

AckTask ==
    \/ AckRecv
    \/ AckSuccess
    \/ AckDlqSend
    \/ AckDlqPubAck
    \/ AckDlqAck
    \/ AckTerm
    \/ AckNak
    \/ AckLoop

Broker == \E m \in DOMAIN bmsg : Expire(m)

Next ==
    \/ Producer
    \/ FetchLoop
    \/ FetchFail
    \/ Worker
    \/ AckTask
    \/ AckDlqPublishFail
    \/ AckSignalFail
    \/ Broker

Spec == Init /\ [][Next]_vars

\* The same system with handlers that also settle their delivery themselves
\* through the context operations.
NextCtx == Next \/ ContextOps

SpecCtx == Init /\ [][NextCtx]_vars

\* ------------------------------------------------------- fair specifications

\* The tokio runtime keeps the fetch loop, the worker and the ack task running,
\* every handler returns, and the broker's ack_wait timers run out.
Fairness ==
    /\ WF_vars(FetchLoop)
    /\ WF_vars(Worker)
    /\ WF_vars(AckTask)
    /\ \A m \in Jobs : WF_vars(Expire(m))

\* A live worker and a broker whose operations all succeed.
NextLive == Producer \/ FetchLoop \/ Worker \/ AckTask \/ Broker

SpecLive == Init /\ [][NextLive]_vars /\ Fairness

\* A live worker and a broker on which only the DLQ publish can fail.
NextDlqFail == NextLive \/ AckDlqPublishFail

SpecDlqFail == Init /\ [][NextDlqFail]_vars /\ Fairness

\* ------------------------------------------------- specifications of order

\* The Config the integration tests build their storage with.
TestConfig == [enable_dlq |-> TRUE, max_ack_pending |-> max_ack_pending_test]

\* The storage as the priority test sets it up: every job is published to its
\* priority stream before the worker starts polling.
InitQueued ==
    /\ config = TestConfig
    /\ bmsg \in [Queued -> {[prio |-> p, st |-> "avail", delivered |-> 0,
                               timer |-> 0, payload |-> "job"] :
                                p \in Priority}]
    /\ pushed = MaxQueued
    /\ dlq = << >>
    /\ fetch = [pc |-> "poll", idx |-> 1, held |-> NoMessage]
    /\ job_ch = << >>
    /\ running = << >>
    /\ ack_ch = << >>
    /\ ackt = AckIdle
    /\ peer = PeerInit
    /\ invoked = [m \in DOMAIN bmsg |-> 0]
    /\ call = CallIdle
    /\ streams = Provisioned(config)
    /\ consumers = SharedConsumers
    /\ ctor = [c \in Callers |-> CtorIdle]
    /\ factory = [w \in Workers |-> FactoryIdle]
    /\ hb = HbOff
    /\ closed = Open

\* A worker of concurrency 1 whose handler returns Ok(()), as track_job does.
WorkerOk == WorkerTake \/ HandlerReturn("ok")

\* The ack task for records of successful handlers.
AckTaskOk == AckRecv \/ AckSuccess \/ AckLoop

NextQueued == FetchLoop \/ FetchFail \/ WorkerOk \/ AckTaskOk

SpecQueued == InitQueued /\ [][NextQueued]_vars

\* A storage that starts empty and takes MaxQueued pushes.
InitEmit ==
    /\ config = TestConfig
    /\ bmsg = [m \in Queued |-> Unpublished]
    /\ pushed = 0
    /\ dlq = << >>
    /\ fetch = [pc |-> "poll", idx |-> 1, held |-> NoMessage]
    /\ job_ch = << >>
    /\ running = << >>
    /\ ack_ch = << >>
    /\ ackt = AckIdle
    /\ peer = PeerInit
    /\ invoked = [m \in DOMAIN bmsg |-> 0]
    /\ call = CallIdle
    /\ streams = Provisioned(config)
    /\ consumers = SharedConsumers
    /\ ctor = [c \in Callers |-> CtorIdle]
    /\ factory = [w \in Workers |-> FactoryIdle]
    /\ hb = HbOff
    /\ closed = Open

\* The producer pushes while the fetch loop, the worker and the ack task run.
NextEmit == Producer \/ FetchLoop \/ FetchFail \/ WorkerOk \/ AckTaskOk

SpecEmit == InitEmit /\ [][NextEmit]_vars

\* ---------------------------------------------------------- scripted handlers

\* The number of attempts the handler of the retry test fails before it
\* succeeds: the largest number below max_deliver.
FailFirst == max_deliver - 1

\* flaky_job: the handler counts its attempts, fails the first FailFirst of
\* them with Error::Failed and returns Ok(()) from then on.
flaky_job(attempt) == IF attempt <= FailFirst THEN "transient" ELSE "ok"

FlakyReturn ==
    /\ running # << >>
    /\ HandlerReturn(flaky_job(invoked[running[1].ctx.m]))

WorkerFlaky == WorkerTake \/ FlakyReturn

\* The ack task for the records of flaky_job: acks and naks.
AckTaskFlaky == AckRecv \/ AckSuccess \/ AckNak \/ AckLoop

NextFlaky == Producer \/ FetchLoop \/ WorkerFlaky \/ AckTaskFlaky \/ Broker

FairnessFlaky ==
    /\ WF_vars(FetchLoop)
    /\ WF_vars(WorkerFlaky)
    /\ WF_vars(AckTaskFlaky)
    /\ \A m \in Jobs : WF_vars(Expire(m))

SpecFlaky == Init /\ [][NextFlaky]_vars /\ FairnessFlaky

\* always_failing_job: every attempt returns Error::Failed; the storage of
\* the DLQ test has the DLQ enabled.
WorkerFailing == WorkerTake \/ HandlerReturn("transient")

\* The ack task for the records of always_failing_job: naks and DLQ routings.
AckTaskFailing ==
    \/ AckRecv
    \/ AckNak
    \/ AckDlqSend
    \/ AckDlqPubAck
    \/ AckDlqAck
    \/ AckLoop

NextFailing ==
    \/ Producer
    \/ FetchLoop
    \/ FetchFail
    \/ WorkerFailing
    \/ AckTaskFailing
    \/ AckDlqPublishFail
    \/ AckSignalFail
    \/ Broker

\* The storage of the test: a fresh one with the DLQ enabled.
InitFailing == InitWith({TestConfig})

SpecFailing == InitFailing /\ [][NextFailing]_vars

\* ------------------------------------------------------------- storage API

\* A caller uses the storage API, one call after the other, while no worker
\* polls the storage.
PushCalls ==
    \/ \E p \in Priority : push_call("push_with_priority", p)
    \/ push_request
    \/ push_serialized
    \/ publish_sent
    \/ publish_stored
    \/ publish_acked
    \/ push_request_parts

LenCalls == len_call("len") \/ len_call("is_empty") \/ len_read

NextApi ==
    \/ PushCalls
    \/ push_serialize_fail
    \/ publish_send_fail
    \/ publish_ack_fail
    \/ LenCalls
    \/ len_skip
    \/ call_return

SpecApi == InitEmit /\ [][NextApi]_vars

\* ------------------------------------------------------------- two workers

\* A storage that starts empty and takes MaxShared pushes; two workers poll it.
InitShared ==
    /\ config = TestConfig
    /\ bmsg = [m \in Shared |-> Unpublished]
    /\ pushed = 0
    /\ dlq = << >>
    /\ fetch = [pc |-> "poll", idx |-> 1, held |-> NoMessage]
    /\ job_ch = << >>
    /\ running = << >>
    /\ ack_ch = << >>
    /\ ackt = AckIdle
    /\ peer = PeerInit
    /\ invoked = [m \in DOMAIN bmsg |-> 0]
    /\ call = CallIdle
    /\ streams = Provisioned(config)
    /\ consumers = SharedConsumers
    /\ ctor = [c \in Callers |-> CtorIdle]
    /\ factory = [w \in Workers |-> FactoryIdle]
    /\ hb = HbOff
    /\ closed = Open

PeerFetchLoop == PeerFetchPull \/ PeerFetchNone \/ PeerFetchSend

\* The second worker's handler returns Ok(()) as well.
PeerWorkerOk == PeerTake \/ PeerReturn("ok")

\* Two workers poll the same storage; handlers succeed and every delivery is
\* settled within ack_wait.
NextShared ==
    \/ Producer
    \/ FetchLoop
    \/ WorkerOk
    \/ AckTaskOk
    \/ PeerFetchLoop
    \/ PeerWorkerOk
    \/ PeerAck

\* Both workers run under tokio: each fetch loop, worker and ack task is
\* scheduled again and again.
FairnessShared ==
    /\ WF_vars(FetchLoop)
    /\ WF_vars(WorkerOk)
    /\ WF_vars(AckTaskOk)
    /\ WF_vars(PeerFetchLoop)
    /\ WF_vars(PeerWorkerOk)
    /\ WF_vars(PeerAck)

SpecShared == InitShared /\ [][NextShared]_vars /\ FairnessShared

\* ------------------------------------------------------- successful handlers

\* A live worker whose handler always returns Ok(()), as handle_job does, a
\* broker whose operations succeed, every delivery settled within ack_wait,
\* and a caller that asks for len() at any time.
NextOk ==
    \/ Producer
    \/ FetchLoop
    \/ WorkerOk
    \/ AckTaskOk
    \/ len_call("len")
    \/ len_read
    \/ call_return

\* tokio keeps the fetch loop, the worker and the ack task running; a len
\* call that was started runs to its end and its caller takes the result.
FairnessOk ==
    /\ WF_vars(FetchLoop)
    /\ WF_vars(WorkerOk)
    /\ WF_vars(AckTaskOk)
    /\ WF_vars(len_read)
    /\ WF_vars(call_return)

SpecOk == Init /\ [][NextOk]_vars /\ FairnessOk

\* ------------------------------------------------------ operational queries

\* The DLQ stream of a storage in which the first n messages are as b says:
\* one abort envelope per dead-lettered message, in stream order.
RECURSIVE DlqOf(_, _)
DlqOf(b, n) ==
    IF n = 0 THEN << >>
    ELSE IF b[n].st = "acked"
         THEN Append(DlqOf(b, n - 1), dlq_job(with_message(n, 1), "abort"))
         ELSE DlqOf(b, n - 1)

\* What a message of priority p can be after earlier work on the storage:
\* still queued, or given up after an abort on its first delivery (published
\* to the DLQ and acked when the DLQ is enabled, terminated otherwise).
Used(p, enable_dlq) ==
    {[prio |-> p, st |-> "avail", delivered |-> 0, timer |-> 0, payload |-> "job"],
     [prio |-> p, st |-> IF enable_dlq THEN "acked" ELSE "termed", delivered |-> 1,
      timer |-> 0, payload |-> "job"]}

\* A storage that has been in use: n messages were pushed, some are queued
\* and some were dead-lettered; no worker polls it now.
InitUsed ==
    /\ config \in [enable_dlq : BOOLEAN]
    /\ pushed \in 0..MaxQueued
    /\ bmsg \in [Queued -> UNION {Used(p, config.enable_dlq) : p \in Priority}
                              \cup {Unpublished}]
    /\ \A m \in Queued : (bmsg[m] = Unpublished) <=> (m > pushed)
    /\ dlq = DlqOf(bmsg, pushed)
    /\ fetch = [pc |-> "poll", idx |-> 1, held |-> NoMessage]
    /\ job_ch = << >>
    /\ running = << >>
    /\ ack_ch = << >>
    /\ ackt = AckIdle
    /\ peer = PeerInit
    /\ invoked = [m \in DOMAIN bmsg |-> IF bmsg[m].delivered > 0 THEN 1 ELSE 0]
    /\ call = CallIdle
    /\ streams = Provisioned(config)
    /\ consumers = SharedConsumers
    /\ ctor = [c \in Callers |-> CtorIdle]
    /\ factory = [w \in Workers |-> FactoryIdle]
    /\ hb = HbOff
    /\ closed = Open

StatsCalls == stats \/ stats_read \/ stats_read_dlq

Unsupported ==
    \/ push_raw_request
    \/ schedule_request
    \/ fetch_by_id
    \/ update
    \/ reschedule
    \/ list_jobs

NextExpose ==
    \/ PushCalls
    \/ StatsCalls
    \/ Unsupported
    \/ stats_skip
    \/ stats_skip_dlq
    \/ call_return

SpecExpose == InitUsed /\ [][NextExpose]_vars

\* ------------------------------------------------------------- construction

\* A broker without streams and consumers, and no storage built yet.
InitProvision ==
    /\ config \in [enable_dlq : BOOLEAN]
    /\ bmsg = [m \in Jobs |-> Unpublished]
    /\ pushed = 0
    /\ dlq = << >>
    /\ fetch = [pc |-> "poll", idx |-> 1, held |-> NoMessage]
    /\ job_ch = << >>
    /\ running = << >>
    /\ ack_ch = << >>
    /\ ackt = AckIdle
    /\ peer = PeerInit
    /\ invoked = [m \in DOMAIN bmsg |-> 0]
    /\ call = CallIdle
    /\ streams = << >>
    /\ consumers = << >>
    /\ ctor = [c \in Callers |-> CtorIdle]
    /\ factory = [w \in Workers |-> FactoryIdle]
    /\ hb = HbOff
    /\ closed = Open

Construct == \E c \in Callers : new_with_config(c) \/ stream_info(c) \/ stream_create(c)

\* A job is pushed to a priority whose stream exists.
PushProvisioned ==
    \E p \in Priority : Named(get_stream_name(p)) # {} /\ push_with_priority(p)

\* Several processes construct a storage with the same config on one broker,
\* again and again, while jobs are pushed; the broker answers every request.
NextProvision == Construct \/ PushProvisioned

SpecProvision == InitProvision /\ [][NextProvision]_vars

ConstructFail == \E c \in Callers : stream_fail(c)

\* The same with a broker that may fail any stream request.
NextProvisionFail == Construct \/ ConstructFail \/ PushProvisioned

SpecProvisionFail == InitProvision /\ [][NextProvisionFail]_vars

\* ---------------------------------------------------------------- consumers

\* Config::default().max_deliver.
max_deliver_default == 5

\* A consumer that a worker with the default configuration left behind.
OlderConsumer(p) == [consumer_config(p) EXCEPT !.max_deliver = max_deliver_default]

\* A storage that was built, on a broker that has no consumer yet or has the
\* high-priority consumer of an earlier worker.
InitConsumers ==
    /\ config \in [enable_dlq : BOOLEAN]
    /\ bmsg = [m \in Jobs |-> Unpublished]
    /\ pushed = 0
    /\ dlq = << >>
    /\ fetch = [pc |-> "poll", idx |-> 1, held |-> NoMessage]
    /\ job_ch = << >>
    /\ running = << >>
    /\ ack_ch = << >>
    /\ ackt = AckIdle
    /\ peer = PeerInit
    /\ invoked = [m \in DOMAIN bmsg |-> 0]
    /\ call = CallIdle
    /\ streams = Provisioned(config)
    /\ consumers \in {<< >>, <<OlderConsumer("high")>>}
    /\ ctor = [c \in Callers |-> CtorIdle]
    /\ factory = [w \in Workers |-> FactoryIdle]
    /\ hb = HbOff
    /\ closed = Open

\* The factory calls of the fetch loops of the workers, for any priority and
\* in any interleaving.
Factory ==
    \E w \in Workers :
        \/ \E p \in Priority : get_or_create_consumer(w, p)
        \/ consumer_stream(w)
        \/ consumer_info(w)
        \/ consumer_create(w)
        \/ consumer_used(w)

FactoryFail == \E w \in Workers : consumer_fail(w)

NextConsumers == Factory \/ FactoryFail

SpecConsumers == InitConsumers /\ [][NextConsumers]_vars

\* ------------------------------------------------------- long-running handlers

\* The worker of the crate docs: every request runs under the
\* ProgressHeartbeatLayer and catch_panic.
HeartbeatWorker == HeartbeatCall \/ \E exit \in Exit : HeartbeatReturn(exit)

\* Producers that call Storage::push: every job goes to the default priority.
ProducerPush == push_with_priority(Priority_default)

\* A worker with the heartbeat layer on a broker that works, with time: the
\* ack_wait of a delivery runs from the pull, handlers take any number of
\* ticks, and the broker redelivers what timed out.
NextHeartbeat ==
    \/ ProducerPush
    \/ FetchLoop
    \/ HeartbeatWorker
    \/ HeartbeatTick
    \/ AckTask
    \/ Tick
    \/ Timeouts

SpecHeartbeat == Init /\ [][NextHeartbeat]_vars

\* The same worker with handlers that run long and return Ok(()), on a
\* storage that takes MaxShared pushes: a request can wait in the job channel
\* behind a running handler.
NextPrefetch ==
    \/ ProducerPush
    \/ FetchLoop
    \/ HeartbeatCall
    \/ HeartbeatReturn("ok")
    \/ HeartbeatTick
    \/ AckTaskOk
    \/ Tick
    \/ Timeouts

SpecPrefetch == InitShared /\ [][NextPrefetch]_vars

\* A worker without the heartbeat layer whose handlers call progress()
\* themselves while they run, any number of times, and return Ok(()).
WorkerProgress == WorkerTake \/ ctx_progress \/ HandlerReturn("ok")

NextProgress ==
    \/ Producer
    \/ FetchLoop
    \/ WorkerProgress
    \/ AckTaskOk
    \/ Tick
    \/ Timeouts

SpecProgress == Init /\ [][NextProgress]_vars

\* ------------------------------------------------------- synthetic requests

\* Ack::ack on a storage with enable_dlq: Error::Abort goes to the DLQ, never
\* to AckKind::Term.
AckTaskDlq ==
    \/ AckRecv
    \/ AckSuccess
    \/ AckNak
    \/ AckDlqSend
    \/ AckDlqPubAck
    \/ AckDlqAck
    \/ AckLoop

\* A worker that is fed by the fetch loop and by requests built by hand, with
\* handlers that use the context operations and end with any outcome.
NextSynthetic ==
    \/ ProducerPush
    \/ FetchLoop
    \/ Worker
    \/ SyntheticCall
    \/ ContextOps
    \/ ctx_progress
    \/ AckTaskDlq

SpecSynthetic == InitFailing /\ [][NextSynthetic]_vars

\* ---------------------------------------------------------------- fetch loop

\* Other clients of the broker publish payloads that are no envelopes.
Foreign == \E p \in Priority : publish_raw(p)

\* The whole loop body of the fetch task: pulls that yield a job, nothing, a
\* malformed message or an error, the term of a malformed message, the send
\* to the job channel and the exit on a closed channel.
FetchTask ==
    \/ FetchLoop
    \/ FetchFail
    \/ FetchMalformed
    \/ FetchTerm
    \/ FetchTermFail
    \/ FetchSendClosed

\* The fetch loop of one worker with handlers that return Ok(()), on a broker
\* whose requests may fail and that redelivers after ack_wait; jobs are
\* pushed with Storage::push, malformed payloads arrive on every subject, and
\* the worker may shut down at any time.
NextFetch ==
    \/ ProducerPush
    \/ Foreign
    \/ FetchTask
    \/ WorkerOk
    \/ AckTaskOk
    \/ Broker
    \/ DropJobRx

SpecFetch == InitShared /\ [][NextFetch]_vars

\* ------------------------------------------------------------------ shutdown

\* Every path of the ack task: Ack::ack with broker operations that succeed or
\* fail, and the end of the task on a closed and drained ack channel.
AckTaskAll ==
    \/ AckTask
    \/ AckInfoFail
    \/ AckDlqPublishFail
    \/ AckSignalFail
    \/ AckExit

\* The worker shuts down: first the job stream goes, then the service.
Shutdown == DropJobRx \/ DropAckTx

\* A worker with handlers of any outcome on a broker whose acknowledgement
\* operations may fail and that redelivers after ack_wait; jobs are pushed
\* with Storage::push and the worker may shut down at any time.
NextDrain ==
    \/ ProducerPush
    \/ FetchLoop
    \/ FetchSendClosed
    \/ Worker
    \/ AckTaskAll
    \/ Broker
    \/ Shutdown

SpecDrain == Init /\ [][NextDrain]_vars

\* ------------------------------------------------------------- back-pressure

Backlog == 1..MaxBacklog

\* A storage with the Config of the integration tests or the default
\* max_ack_pending, and a backlog larger than the job channel.
InitBacklog ==
    /\ config \in {TestConfig, [enable_dlq |-> TRUE]}
    /\ bmsg = [m \in Backlog |-> Unpublished]
    /\ pushed = 0
    /\ dlq = << >>
    /\ fetch = [pc |-> "poll", idx |-> 1, held |-> NoMessage]
    /\ job_ch = << >>
    /\ running = << >>
    /\ ack_ch = << >>
    /\ ackt = AckIdle
    /\ peer = PeerInit
    /\ invoked = [m \in DOMAIN bmsg |-> 0]
    /\ call = CallIdle
    /\ streams = Provisioned(config)
    /\ consumers = SharedConsumers
    /\ ctor = [c \in Callers |-> CtorIdle]
    /\ factory = [w \in Workers |-> FactoryIdle]
    /\ hb = HbOff
    /\ closed = Open

\* A producer that is faster than the worker: the fetch loop runs against a
\* worker whose handlers return Ok(()) and a broker whose operations succeed.
NextBacklog ==
    \/ ProducerPush
    \/ FetchLoop
    \/ WorkerOk
    \/ AckTaskOk

SpecBacklog == InitBacklog /\ [][NextBacklog]_vars

\* ----------------------------------------------------- an older consumer

\* A storage built with the Config of the tests, or with the DLQ disabled, on
\* a broker that holds no consumer yet or still holds the durable consumers of
\* a worker that ran with Config::default().
InitOlder ==
    /\ config \in {TestConfig, [enable_dlq |-> FALSE]}
    /\ bmsg = [m \in Jobs |-> Unpublished]
    /\ pushed = 0
    /\ dlq = << >>
    /\ fetch = [pc |-> "poll", idx |-> 1, held |-> NoMessage]
    /\ job_ch = << >>
    /\ running = << >>
    /\ ack_ch = << >>
    /\ ackt = AckIdle
    /\ peer = PeerInit
    /\ invoked = [m \in DOMAIN bmsg |-> 0]
    /\ call = CallIdle
    /\ streams = Provisioned(config)
    /\ consumers \in {SharedConsumers,
                       [i \in 1..Len(PriorityOrder) |-> OlderConsumer(PriorityOrder[i])]}
    /\ ctor = [c \in Callers |-> CtorIdle]
    /\ factory = [w \in Workers |-> FactoryIdle]
    /\ hb = HbOff
    /\ closed = Open

\* A worker with handlers of any outcome on a broker whose operations succeed
\* and that redelivers after ack_wait.
NextOlder ==
    \/ ProducerPush
    \/ FetchLoop
    \/ Worker
    \/ AckTask
    \/ Broker

SpecOlder == InitOlder /\ [][NextOlder]_vars

\* ------------------------------------------------------ unreadable metadata

\* A worker with handlers of any outcome on a broker whose operations succeed
\* and that redelivers after ack_wait; the delivery metadata of a message may
\* be unreadable when the ack task looks at it.
NextInfo ==
    \/ ProducerPush
    \/ FetchLoop
    \/ Worker
    \/ AckTask
    \/ AckInfoFail
    \/ Broker

SpecInfo == Init /\ [][NextInfo]_vars

\* ------------------------------------------------------------------ claims

Range(s) == {s[i] : i \in 1..Len(s)}

IsPrefix(s, t) == Len(s) <= Len(t) /\ \A i \in 1..Len(s) : s[i] = t[i]

\* The broker operations of a DLQ routing, in the order Ack::ack awaits them.
DlqOps == <<"dlq_send", "dlq_puback", "ack">>

\* The ack task is handling, or has just handled, a record that carries a
\* broker message and whose handler outcome is o.
Handling(o) == ackt.pc # "idle" /\ ackt.ctx # NoMessage /\ ackt.outcome = o

\* Ack::ack has returned Ok(()) / has returned for the record.
Returned == ackt.pc = "done"

ReturnedOk == ackt.pc = "done" /\ ackt.res = "ok"

\* What Ack::ack did so far for the record: its broker operations that
\* succeeded (a failed one ends the run and is logged as "fail").
Sent == {op \in Range(ackt.ops) : op # "fail"}

\* The DLQ stream gained exactly the envelope of this record, with reason r.
DlqGained(r) ==
    /\ Len(dlq) = ackt.dlq0 + 1
    /\ dlq[Len(dlq)] = [original_task_id |-> ackt.ctx.m,
                        delivered_count  |-> ackt.ctx.delivered,
                        dlq_reason       |-> r]

\* Ack::ack goes through the DLQ routing for a record with reason r: it sends
\* nothing but the DLQ publish and then the ack, in that order.
DlqRouted(r) ==
    /\ \/ IsPrefix(ackt.ops, DlqOps)
       \/ /\ ackt.ops # << >>
          /\ ackt.ops[Len(ackt.ops)] = "fail"
          /\ IsPrefix(SubSeq(ackt.ops, 1, Len(ackt.ops) - 1), DlqOps)
    /\ "dlq_puback" \in Sent => DlqGained(r)
    /\ "dlq_puback" \notin Sent => Len(dlq) = ackt.dlq0
    /\ ReturnedOk => ackt.ops = DlqOps

\* C1: a transient error on a delivery with delivered < max_deliver is naked
\* with the delay nak_backoff[min(delivered-1, len-1)] (the list is 0-indexed
\* in the claim, 1-indexed here).
C1_NakWithBackoff ==
    (Handling("transient") /\ ackt.ctx.delivered < max_deliver /\ "nak" \in Sent)
        => ackt.delay = nak_backoff[Min({ackt.ctx.delivered - 1,
                                         Len(nak_backoff) - 1}) + 1]

\* C2: a transient error on a delivery with delivered >= max_deliver and the
\* DLQ disabled is terminated: the ack handler sends a term and no nak or ack.
C2_TermAtMaxDeliver ==
    (Handling("transient") /\ ackt.ctx.delivered >= max_deliver
       /\ ~config.enable_dlq /\ ReturnedOk)
        => ackt.ops = <<"term">>

\* C3: a transient error on a delivery with delivered >= max_deliver and the
\* DLQ enabled publishes one DLQ envelope with reason max_deliver_exceeded and
\* the broker's delivery count, then acks the original; no nak, no term.
C3_DlqAtMaxDeliver ==
    (Handling("transient") /\ ackt.ctx.delivered >= max_deliver /\ config.enable_dlq)
        => DlqRouted("max_deliver_exceeded")

C3_Witness ==
    /\ Handling("transient") /\ ackt.ctx.delivered >= max_deliver /\ config.enable_dlq
    /\ ReturnedOk
    /\ bmsg[ackt.ctx.m].st = "acked"

\* C4: an abort error with the DLQ enabled publishes a DLQ envelope with reason
\* abort_error and then acks the original, whatever the delivery count; it is
\* never naked or terminated.
C4_DlqOnAbort ==
    (Handling("abort") /\ config.enable_dlq) => DlqRouted("abort_error")

C4_Witness ==
    /\ Handling("abort") /\ config.enable_dlq
    /\ ackt.ctx.delivered < max_deliver
    /\ ReturnedOk
    /\ bmsg[ackt.ctx.m].st = "acked"

\* C5: an abort error with the DLQ disabled is terminated, whatever the
\* delivery count: no nak, no ack, nothing published to the DLQ.
C5_TermOnAbort ==
    (Handling("abort") /\ ~config.enable_dlq)
        => /\ ackt.ops \in {<< >>, <<"term">>, <<"fail">>}
           /\ ReturnedOk => ackt.ops = <<"term">>
           /\ dlq = << >>

C5_Witness ==
    /\ Handling("abort") /\ ~config.enable_dlq
    /\ ackt.ctx.delivered = max_deliver
    /\ ReturnedOk
    /\ bmsg[ackt.ctx.m].st = "termed"

\* C6: a success for a delivery that carries a broker message sends exactly one
\* ack and no DLQ publish, nak or term.
C6_AckOnSuccess ==
    Handling("ok")
        => /\ ackt.ops \in {<< >>, <<"ack">>, <<"fail">>}
           /\ ReturnedOk => (ackt.ops = <<"ack">> /\ ackt.signals = 1)
           /\ Len(dlq) = ackt.dlq0

C6_Witness ==
    /\ Handling("ok")
    /\ ReturnedOk
    /\ bmsg[ackt.ctx.m].st = "acked"

\* C7: on a DLQ routing the original is acked only after the broker has
\* acknowledged the DLQ publish; when the publish fails at the send or at the
\* server-ack stage the original gets no ack, nak or term and Ack::ack
\* returns an error.
C7_AckAfterDlqPublish ==
    (/\ \/ Handling("abort")
        \/ Handling("transient") /\ ackt.ctx.delivered >= max_deliver
     /\ config.enable_dlq)
        => /\ "ack" \in Sent =>
                 /\ Len(ackt.ops) = 3 /\ ackt.ops[2] = "dlq_puback"
                 /\ Len(dlq) = ackt.dlq0 + 1
           /\ (Returned /\ "dlq_puback" \notin Sent) =>
                 /\ ackt.res = "err"
                 /\ Sent \subseteq {"dlq_send"}
                 /\ ackt.signals = 0
                 /\ Len(dlq) = ackt.dlq0

C7_Witness ==
    /\ Handling("abort") /\ config.enable_dlq
    /\ Returned
    /\ ackt.ops = <<"dlq_send", "fail">>
    /\ bmsg[ackt.ctx.m].st = "inflight"

\* Ack::ack returned an error for delivery d of message m because its DLQ
\* publish failed.
DlqPublishFailed(m, d) ==
    /\ Returned
    /\ ackt.ctx = with_message(m, d)
    /\ ackt.res = "err"
    /\ "dlq_puback" \notin Sent

\* C8: after a failed DLQ publish the broker redelivers the original message
\* once ack_wait has expired, for both routing reasons.
C8_RedeliveredAfterDlqFailure ==
    \A m \in Jobs : \A d \in Deliveries :
        DlqPublishFailed(m, d) ~> (bmsg[m].delivered > d)

\* C9: no delivery receives two terminal signals, whatever the handler, the
\* context operations and the ack handler do.
C9_OneTerminalSignal ==
    /\ ackt.signals <= 1
    /\ \A i \in 1..Len(ack_ch) : ack_ch[i].signals <= 1
    /\ \A i \in 1..Len(running) : running[i].signals <= 1

\* C10: every published job eventually leaves its stream by exactly one
\* terminal transition (ack, term, or DLQ publish then ack).
C10_EveryJobSettles ==
    \A m \in Jobs : InStream(bmsg[m]) ~> (bmsg[m].st \in {"acked", "termed"})

\* The records of the DLQ stream written for message m with reason r.
DlqRecords(m, r) ==
    {i \in 1..Len(dlq) : dlq[i].original_task_id = m /\ dlq[i].dlq_reason = r}

\* C11: over a whole run a job whose handler aborts, with the DLQ enabled, gets
\* exactly one DLQ record and its original message is acked, also when broker
\* operations of the ack handler fail and the message is redelivered: never a
\* second abort_error record, and one record and an acked original once
\* Ack::ack has returned Ok for the abort.
C11_OneDlqRecordPerAbort ==
    \A m \in Jobs :
        /\ Cardinality(DlqRecords(m, "abort_error")) <= 1
        /\ (Handling("abort") /\ config.enable_dlq /\ ReturnedOk /\ ackt.ctx.m = m)
              => /\ Cardinality(DlqRecords(m, "abort_error")) = 1
                 /\ bmsg[m].st = "acked"

\* The first delivery of message m waits in the fetch loop or in the job channel.
Waiting(m) ==
    \/ fetch.pc = "send" /\ fetch.held = with_message(m, 1)
    \/ with_message(m, 1) \in Range(job_ch)

\* The handler has been invoked for message m.
Started(m) == bmsg[m].delivered > 0 /\ ~Waiting(m)

\* Message m was queued before the worker started and no pull has returned it.
StillQueued(m) == bmsg[m].st = "avail" /\ bmsg[m].delivered = 0

\* C12: strict priority at fetch time: a job is emitted only if no job of a
\* higher priority is available to the pass that pulled it. Jobs queued before
\* the first pass are available to every pass until a pull returns them.
C12_StrictPriorityAtFetch ==
    fetch.pc = "send" =>
        \A a \in DOMAIN bmsg :
            StillQueued(a) => Rank(bmsg[fetch.held.m].prio) <= Rank(bmsg[a].prio)

\* C13: with all jobs queued before a single worker of concurrency 1 starts,
\* whatever the push order, the handler runs for every High job before any
\* Medium job and for every Medium job before any Low job.
C13_HandledInPriorityOrder ==
    \A a, b \in DOMAIN bmsg :
        (Rank(bmsg[a].prio) < Rank(bmsg[b].prio) /\ Started(b)) => Started(a)

\* The fetch loop has put the first delivery of message m on the job channel.
Emitted(m) ==
    /\ bmsg[m].delivered > 0
    /\ ~(fetch.pc = "send" /\ fetch.held = with_message(m, 1))

\* C14: within one priority the fetch loop emits jobs in publish order: of two
\* jobs of the same priority, the one published later is never emitted while
\* the one published first has not been.
C14_FifoWithinPriority ==
    \A a, b \in DOMAIN bmsg :
        (a < b /\ bmsg[a].prio = bmsg[b].prio /\ Emitted(b)) => Emitted(a)

\* Two jobs of one priority were published while the loop ran and both were
\* emitted.
C14_Witness ==
    \E a, b \in DOMAIN bmsg :
        /\ a < b /\ bmsg[a].prio = bmsg[b].prio
        /\ Emitted(a) /\ Emitted(b)
        /\ bmsg[a].st = "acked" /\ bmsg[b].st = "inflight"

TransientSettled(m, d) ==
    Handling("transient") /\ Returned /\ ackt.ctx = with_message(m, d)

\* C16: a handler that fails with a transient error on its first k deliveries,
\* k < max_deliver, and succeeds on the next: the job is redelivered after each
\* failure, the handler runs at least k + 1 times, the job ends acked and no
\* DLQ record is ever written.
C16_RetryThenAck ==
    /\ [](dlq = << >>)
    /\ \A m \in Jobs : \A d \in 1..FailFirst :
          TransientSettled(m, d) ~> (bmsg[m].delivered > d)
    /\ \A m \in Jobs :
          (bmsg[m].st # "unpub")
              ~> (bmsg[m].st = "acked" /\ invoked[m] >= FailFirst + 1)

\* The handler failed on delivery FailFirst, the nak made the broker redeliver
\* the job, and the ack of the successful attempt removed it.
C16_Witness ==
    /\ Handling("ok") /\ ReturnedOk
    /\ ackt.ctx.delivered = FailFirst + 1
    /\ invoked[ackt.ctx.m] = FailFirst + 1
    /\ bmsg[ackt.ctx.m].st = "acked"
    /\ config.enable_dlq

\* C17: a handler that always fails with a transient error, DLQ enabled: the
\* handler is never invoked more than max_deliver times for a job; a DLQ record
\* is written only after max_deliver invocations and carries delivered_count =
\* max_deliver, dlq_reason = max_deliver_exceeded and the id of the job; and
\* once Ack::ack has returned Ok for the last delivery the DLQ stream holds
\* the record of the job.
C17_DlqAfterMaxDeliver ==
    /\ \A m \in Jobs : invoked[m] <= max_deliver
    /\ \A i \in 1..Len(dlq) :
          /\ dlq[i].delivered_count = max_deliver
          /\ dlq[i].dlq_reason = "max_deliver_exceeded"
          /\ dlq[i].original_task_id # NoMessage.m
          /\ invoked[dlq[i].original_task_id] = max_deliver
    /\ (Handling("transient") /\ ackt.ctx.delivered = max_deliver /\ ReturnedOk)
          => DlqRecords(ackt.ctx.m, "max_deliver_exceeded") # {}

\* The handler failed max_deliver times and the job went to the DLQ.
C17_Witness ==
    /\ Handling("transient") /\ ReturnedOk
    /\ ackt.ctx.delivered = max_deliver
    /\ invoked[ackt.ctx.m] = max_deliver
    /\ Cardinality(DlqRecords(ackt.ctx.m, "max_deliver_exceeded")) = 1
    /\ bmsg[ackt.ctx.m].st = "acked"

\* A push call (either entry point) has returned.
PushDone == call.pc = "done" /\ call.op \in {"push_with_priority", "push_request"}

\* The task id a successful push call returned.
ReturnedId == IF call.op = "push_request" THEN call.val.task_id ELSE call.val

\* The broker after exactly one message was appended to the stream of p.
OneMore(before, p) == [before EXCEPT ![p] = @ + 1]

\* C18: push_with_priority(job, p) returns a task id only after the broker has
\* acknowledged the publish: when it returns Ok, exactly one message, with the
\* returned id, was appended to the stream of p and the other priority streams
\* and the DLQ stream are as before; when the send or the server-ack stage
\* fails it returns a Nats error.
C18_PushFrame ==
    (call.op = "push_with_priority" /\ call.pc = "done")
        => /\ call.ret = "ok" =>
                 /\ call.failed = "none"
                 /\ call.val = call.id
                 /\ bmsg[call.val].prio = call.p /\ bmsg[call.val].st = "avail"
                 /\ Streams = OneMore(call.before, call.p)
           /\ call.failed \in {"send", "ack"} =>
                 call.ret = "nats_err" /\ call.val = CallIdle.val

C18_Witness ==
    /\ call.op = "push_with_priority" /\ call.pc = "done" /\ call.ret = "ok"
    /\ call.p = "low"
    /\ call.before["high"] = 1 /\ call.before["low"] = 1

\* C19: push(job) does what push_with_priority(job, Medium) does: the job is
\* published to the medium stream only and the returned parts carry the id of
\* that publish.
C19_PushIsMedium ==
    call.op = "push_request"
        => /\ call.p = "medium"
           /\ (call.pc = "done" /\ call.ret = "ok") =>
                 /\ call.val.task_id = call.id
                 /\ bmsg[call.val.task_id].prio = "medium"
                 /\ Streams = OneMore(call.before, "medium")
           /\ (call.pc = "done" /\ call.failed \in {"send", "ack"}) =>
                 call.ret = "nats_err"

C19_Witness ==
    /\ call.op = "push_request" /\ call.pc = "done" /\ call.ret = "ok"
    /\ call.before["medium"] = 1 /\ call.before["high"] = 1

\* C20: len() returns the sum of the message counts of the three priority
\* streams, the DLQ stream not counted, and is_empty() is true exactly when
\* this sum is 0: 0 for a fresh storage, n after n successful pushes with no
\* worker running.
C20_LenIsSum ==
    LET sum == StreamCount("high") + StreamCount("medium") + StreamCount("low") IN
    /\ (call.op = "len" /\ call.pc = "done") => call.val = sum
    /\ (call.op = "is_empty" /\ call.pc = "done") => (call.val <=> (sum = 0))

\* C21: when every handler invocation succeeds and the worker is live, every
\* pushed job is eventually handled and acked, an acked message is out of its
\* priority stream and is never delivered again, and from some point on every
\* len() returns 0.
C21_AllHandledThenEmpty ==
    /\ \A m \in Jobs : (bmsg[m].st # "unpub") ~> (invoked[m] >= 1 /\ bmsg[m].st = "acked")
    /\ [][\A m \in Jobs : bmsg[m].st = "acked" =>
              (bmsg'[m] = bmsg[m] /\ ~InStream(bmsg'[m]))]_vars
    /\ <>[]((call.op = "len" /\ call.pc = "done") => call.val = 0)

\* len() returns 0 after a job was pushed, handled and acked.
C21_Witness ==
    /\ call.op = "len" /\ call.pc = "done" /\ call.val = 0
    /\ \E m \in Jobs : bmsg[m].st = "acked" /\ invoked[m] >= 1

\* C22: stats() reports running = 0, dead = 0 and success = 0, pending equal
\* to the sum of the message counts of the three priority streams, and failed
\* equal to the message count of the DLQ stream when enable_dlq is set, 0
\* otherwise.
C22_StatsCounts ==
    (call.op = "stats" /\ call.pc = "done")
        => /\ call.val.running = 0 /\ call.val.dead = 0 /\ call.val.success = 0
           /\ call.val.pending =
                StreamCount("high") + StreamCount("medium") + StreamCount("low")
           /\ call.val.failed = IF config.enable_dlq THEN Len(dlq) ELSE 0

\* The operations the storage does not support.
RejectedOps == {"update", "reschedule", "schedule_request", "push_raw_request"}

EmptyOps == {"list_jobs", "fetch_by_id"}

\* C23: update, reschedule, schedule_request and push_raw_request return a
\* Storage error, list_jobs returns an empty list and fetch_by_id returns no
\* job, whatever jobs are queued, and none of them changes a stream or the
\* consumer state of a message.
C23_UnsupportedOps ==
    /\ [](call.op \in RejectedOps \cup EmptyOps =>
            /\ call.pc = "done"
            /\ Streams = call.before
            /\ call.op \in RejectedOps => call.ret = "storage_err"
            /\ call.op = "list_jobs" => (call.ret = "ok" /\ call.val = << >>)
            /\ call.op = "fetch_by_id" => (call.ret = "ok" /\ call.val = "none"))
    /\ [][call'.op \in RejectedOps \cup EmptyOps =>
             UNCHANGED <<bmsg, pushed, dlq>>]_vars

\* An update is rejected while jobs are queued and the DLQ stream holds one.
C23_Witness ==
    /\ call.op = "update" /\ call.pc = "done" /\ call.ret = "storage_err"
    /\ StreamCount("high") >= 1 /\ StreamCount("low") >= 1
    /\ Len(dlq) >= 1

\* The broker has a stream with the configuration cfg.
Exists(cfg) == \E i \in 1..Len(streams) : streams[i] = cfg

\* C24: after a successful construction the stream {ns}_{p} on subject
\* {ns}.{p} exists for each priority p, and the stream {ns}_dlq on {ns}.dlq
\* exists when enable_dlq is set; a construction in which the creation of a
\* stream failed returns an error and no storage.
C24_StreamsAfterNew ==
    \A c \in Callers :
        ctor[c].pc = "done" =>
            /\ ctor[c].ret = "ok" =>
                  /\ \A p \in Priority :
                        Exists([name |-> namespace \o "_" \o p,
                                subjects |-> <<namespace \o "." \o p>>,
                                retention |-> "WorkQueue"])
                  /\ config.enable_dlq =>
                        \E i \in 1..Len(streams) :
                            /\ streams[i].name = namespace \o "_dlq"
                            /\ streams[i].subjects = <<namespace \o ".dlq">>
            /\ ctor[c].failed => ctor[c].ret = "nats_err"

\* One construction succeeded, with the DLQ stream, and another one failed.
C24_Witness ==
    /\ config.enable_dlq
    /\ \E c, d \in Callers :
          /\ ctor[c].pc = "done" /\ ctor[c].ret = "ok"
          /\ ctor[d].pc = "done" /\ ctor[d].failed

\* C25: constructions with the same config, repeated or interleaved, succeed
\* for every caller, leave exactly one stream per name and neither lose nor
\* duplicate a message that is queued.
C25_IdempotentProvisioning ==
    /\ [](\A c \in Callers : ctor[c].pc = "done" => ctor[c].ret = "ok")
    /\ [](\A i, j \in 1..Len(streams) :
              streams[i].name = streams[j].name => i = j)
    /\ [](\A c \in Callers : ctor[c].ret = "ok" =>
              \A n \in {StreamConfigs(config)[i].name :
                            i \in 1..Len(StreamConfigs(config))} :
                  Cardinality(Named(n)) = 1)
    /\ [][ctor' # ctor => UNCHANGED <<bmsg, pushed, dlq>>]_vars

\* A caller found no stream, another one built the whole storage and a job
\* was queued since: the first caller is about to send its create request.
C25_Witness ==
    \E c, d \in Callers :
        /\ ctor[c].pc = "create" /\ ctor[c].idx = 1
        /\ ctor[d].pc = "done" /\ ctor[d].ret = "ok"
        /\ \E m \in DOMAIN bmsg : bmsg[m].st = "avail"

\* C26: at every moment at most one durable consumer {ns}_{p}_consumer exists
\* per priority p; every factory call that returns a consumer returns that
\* one, on the stream of p, and no step deletes or changes a consumer that
\* exists.
C26_OneConsumerPerPriority ==
    /\ [](\A p \in Priority :
             Cardinality(ConsumersNamed(namespace \o "_" \o p \o "_consumer")) <= 1)
    /\ [](\A i \in 1..Len(consumers) :
             \E p \in Priority :
                 /\ consumers[i].name = namespace \o "_" \o p \o "_consumer"
                 /\ consumers[i].stream = namespace \o "_" \o p)
    /\ [](\A w \in Workers :
             (factory[w].pc = "done" /\ factory[w].ret = "ok") =>
                 Cardinality(ConsumersNamed(
                     namespace \o "_" \o factory[w].p \o "_consumer")) = 1)
    /\ [][/\ Len(consumers') >= Len(consumers)
          /\ \A i \in 1..Len(consumers) : consumers'[i] = consumers[i]]_vars

\* One worker got the consumer of a priority while the other, which had not
\* found it, is about to ask for its creation.
C26_Witness ==
    \E w, v \in Workers :
        /\ factory[w].pc = "done" /\ factory[w].ret = "ok"
        /\ factory[v].pc = "create" /\ factory[v].p = factory[w].p
        /\ Len(consumers) >= 2

\* C29: progress() on the context of a delivery restarts the ack_wait of that
\* delivery and changes nothing else: the message keeps its state (pending
\* stays pending) and its delivery count, no other message, the DLQ and no
\* channel changes, and the ack sent after the handler returned still removes
\* the message.
C29_ProgressOnlyExtends ==
    /\ [][ctx_progress =>
            LET m == running[1].ctx.m IN
              /\ bmsg'[m].st = bmsg[m].st
              /\ bmsg'[m].delivered = bmsg[m].delivered
              /\ bmsg'[m].prio = bmsg[m].prio
              /\ bmsg[m].st = "inflight" => bmsg'[m].timer = ack_wait
              /\ \A k \in DOMAIN bmsg \ {m} : bmsg'[k] = bmsg[k]
              /\ UNCHANGED <<dlq, job_ch, ack_ch, ackt, pushed>>]_vars
    /\ [](ackt.pc = "done" /\ ackt.progress = 1 /\ ackt.ops = <<"ack">>
             => bmsg[ackt.ctx.m].st = "acked")

\* A handler called progress() for a pending delivery, returned, and the ack
\* removed the message after its first delivery.
C29_Witness ==
    /\ ackt.pc = "done"
    /\ ackt.progress = 1
    /\ ackt.ops = <<"ack">>
    /\ ackt.ctx.delivered = 1
    /\ bmsg[ackt.ctx.m] = [bmsg[ackt.ctx.m] EXCEPT !.st = "acked", !.delivered = 1]

\* C27: under the heartbeat layer the progress ticker of a request runs
\* exactly while its handler runs: it is on, for the message of the request,
\* from the start of the handler, a handler that has run for more than one
\* interval has had an in-progress signal sent, and after the handler ended
\* (Ok, error or panic) the ticker is off and sends no signal.
C27_TickerWhileRunning ==
    /\ [](running # << >> =>
             /\ hb.on
             /\ hb.m = running[1].ctx.m
             /\ hb.left \in 0..interval
             /\ hb.ran > interval => running[1].progress = 1)
    /\ [](running = << >> => ~hb.on)
    /\ [][HeartbeatTick => running # << >> /\ running'[1].progress = 1]_vars

\* An in-progress signal was sent while a handler ran, then the handler ended
\* with Error::Abort or a panic and the ticker is off.
C27_Witness ==
    /\ running = << >>
    /\ ~hb.on
    /\ ack_ch # << >>
    /\ ack_ch[1].progress = 1
    /\ ack_ch[1].outcome = "abort"
    /\ bmsg[ack_ch[1].ctx.m].st = "inflight"
    /\ bmsg[ack_ch[1].ctx.m].delivered = 1

\* C28: under the heartbeat layer with interval < ack_wait, the message of a
\* handler that has run for longer than ack_wait was not delivered again
\* since that handler started.
C28_NoRedeliveryWhileRunning ==
    (running # << >> /\ hb.on /\ hb.ran > ack_wait /\ interval < ack_wait)
        => bmsg[hb.m].delivered = hb.d0

\* C30: for a context that carries no broker message, the context operations
\* ack, nack, term and progress return Ok and Ack::ack returns Ok for every
\* outcome at once; none of them sends a signal to the broker or publishes
\* to the DLQ.
C30_NoMessageNoOp ==
    /\ [][(running # << >> /\ running[1].ctx = NoMessage
            /\ (ctx_ack \/ ctx_nack \/ ctx_term \/ ctx_progress))
             => /\ running'[1].res = "ok"
                /\ running'[1].signals = 0 /\ running'[1].progress = 0
                /\ UNCHANGED <<bmsg, dlq, pushed>>]_vars
    /\ [][(ack_ch # << >> /\ Head(ack_ch).ctx = NoMessage /\ AckRecv)
             => ackt'.pc = "done" /\ UNCHANGED <<bmsg, dlq, pushed>>]_vars
    /\ [](ackt.pc # "idle" /\ ackt.ctx = NoMessage
             => ackt.pc = "done" /\ ackt.res = "ok" /\ ackt.ops = << >>)

\* Ack::ack returned for a request without a message whose handler ended with
\* Error::Abort, while a real delivery is pending at the broker and nothing
\* is in the DLQ.
C30_Witness ==
    /\ ackt.pc = "done"
    /\ ackt.ctx = NoMessage
    /\ ackt.outcome = "abort"
    /\ dlq = << >>
    /\ \E m \in DOMAIN bmsg : bmsg[m].st = "inflight"

\* C31: a message the handler settled with term() is discarded, and with the
\* DLQ enabled its job is in the DLQ stream by the time the ack handler is
\* done with that delivery.
C31_TermGoesToDlq ==
    \A m \in Jobs :
        (/\ bmsg[m].st = "termed"
         /\ config.enable_dlq
         /\ ackt.pc = "done"
         /\ ackt.ctx.m = m)
            => \E i \in 1..Len(dlq) : dlq[i].original_task_id = m

\* The priority the fetch loop is polling.
Polled == PriorityOrder[fetch.idx]

\* The messages a step delivers.
Pulled == {m \in DOMAIN bmsg : bmsg'[m].delivered # bmsg[m].delivered}

\* C32: a pass of the fetch loop polls High, Medium, Low in this order, one
\* pull of one message per priority: a pull that yields nothing, fails or
\* yields a malformed message moves on to the next priority; a decoded job is
\* sent to the job channel alone, and the send ends the pass, the next poll
\* being High again.
C32_PassOrder ==
    /\ [][fetch' # fetch =>
            \/ /\ fetch.pc = "poll" /\ fetch'.pc = "poll"
               /\ fetch'.idx = NextIdx(fetch.idx)
               /\ Pulled = {}
               /\ job_ch' = job_ch
            \/ /\ fetch.pc = "poll" /\ fetch'.pc \in {"send", "term"}
               /\ fetch'.idx = fetch.idx
               /\ Pulled = {fetch'.held.m}
               /\ bmsg[fetch'.held.m].prio = Polled
               /\ job_ch' = job_ch
            \/ /\ fetch.pc = "term" /\ fetch'.pc = "poll"
               /\ fetch'.idx = NextIdx(fetch.idx)
               /\ Pulled = {}
               /\ job_ch' = job_ch
            \/ /\ fetch.pc = "send" /\ fetch'.pc = "poll"
               /\ fetch'.idx = 1
               /\ Pulled = {}
               /\ job_ch' = Append(job_ch, fetch.held)
            \/ /\ fetch.pc = "send" /\ fetch'.pc = "exited"
               /\ Pulled = {}
               /\ job_ch' = job_ch]_vars
    /\ [][(Pulled # {} \/ Len(job_ch') > Len(job_ch)) => fetch' # fetch]_vars
    /\ [](fetch.idx \in 1..3 /\ PriorityOrder = <<"high", "medium", "low">>)

\* A pass found nothing to emit at High, pulled a job at Medium and sent it,
\* and the loop polls High again.
C32_Witness ==
    /\ fetch.pc = "poll"
    /\ fetch.idx = 1
    /\ job_ch # << >>
    /\ bmsg[job_ch[Len(job_ch)].m].prio = "medium"
    /\ \E m \in DOMAIN bmsg : bmsg[m].prio = "high" /\ bmsg[m].st = "termed"

\* The malformed messages.
Garbage == {m \in DOMAIN bmsg : bmsg[m].st # "unpub" /\ from_slice(bmsg[m]) = "err"}

\* C33: a pulled message whose payload does not decode is terminated by the
\* fetch loop: the loop sends Term for it and nothing else, a Term that
\* reached the broker removes the message for good, the message is never
\* published to the DLQ, never emitted to the worker, and the loop polls on.
C33_MalformedIsTermed ==
    /\ [](\A m \in Garbage :
            /\ \A i \in 1..Len(job_ch) : job_ch[i].m # m
            /\ \A i \in 1..Len(running) : running[i].ctx.m # m
            /\ \A i \in 1..Len(dlq) : dlq[i].original_task_id # m
            /\ invoked[m] = 0
            /\ bmsg[m].st # "acked"
            /\ (fetch.pc \in {"send", "exited"} => fetch.held.m # m))
    /\ [][\A m \in Garbage :
            /\ bmsg[m].st = "termed" => bmsg'[m] = bmsg[m]
            /\ (m \in Pulled => fetch'.pc = "term" /\ fetch'.held.m = m)
            /\ (fetch.pc = "term" /\ fetch.held.m = m /\ fetch' # fetch)
                 => /\ fetch'.pc = "poll"
                    /\ bmsg'[m] \in {bmsg[m], BrokerTerm(bmsg[m])}]_vars

\* A malformed message was pulled once and terminated, and the loop went on
\* to emit a job.
C33_Witness ==
    /\ \E m \in Garbage : bmsg[m].st = "termed" /\ bmsg[m].delivered = 1
    /\ job_ch # << >>
    /\ fetch.pc = "poll"

\* C34: the fetch loop ends only on a send to a closed job channel: a failed
\* consumer lookup, pull or read skips the priority and the loop polls on, so
\* that a loop which has not exited is polling, terminating or sending, and a
\* polling loop can always take its next step.
C34_ExitOnlyOnClose ==
    /\ [][(fetch'.pc = "exited" /\ fetch.pc # "exited")
             => (fetch.pc = "send" /\ closed.job_rx)]_vars
    /\ [](fetch.pc = "exited" => closed.job_rx)
    /\ [](fetch.pc \in {"poll", "send", "term", "exited"})
    /\ [](fetch.pc = "poll" => ENABLED (FetchLoop \/ FetchMalformed))
    /\ [][(fetch.pc = "poll" /\ fetch'.pc = "poll" /\ fetch' # fetch)
             => fetch'.idx = NextIdx(fetch.idx)]_vars

\* The worker dropped the job stream and the loop ended on its next send, in
\* a pass that had fallen through High first.
C34_Witness ==
    /\ fetch.pc = "exited"
    /\ closed.job_rx
    /\ fetch.idx > 1

\* C40: a job the fetch loop pulled but could not send because the job
\* channel is closed gets no ack, nak or term from the loop, which exits, and
\* while that delivery is pending the message is one the broker delivers
\* again when ack_wait has run out.
C40_HeldJobIsRedelivered ==
    /\ [][(fetch.pc = "send" /\ fetch'.pc = "exited")
             => UNCHANGED <<bmsg, dlq>>]_vars
    /\ []((fetch.pc = "exited" /\ bmsg[fetch.held.m].st = "inflight")
             => AfterGiveUp(bmsg[fetch.held.m]).st = "avail")

\* C35: the ack task takes the outcome records one at a time and in the order
\* they were put on the ack channel, and it keeps draining until the channel is
\* closed: a record leaves the channel only from its head and only while the
\* task is idle; when Ack::ack has returned, with an error or not, the task
\* goes back to waiting without a broker operation and without putting the
\* record back, and it can always take the next record; the task ends only on
\* a closed and empty channel.
C35_AckTaskDrains ==
    /\ [][Len(ack_ch') < Len(ack_ch) =>
            /\ ackt.pc = "idle"
            /\ ack_ch' = Tail(ack_ch)
            /\ ackt'.ctx = Head(ack_ch).ctx
            /\ ackt'.outcome = Head(ack_ch).outcome]_vars
    /\ [][Len(ack_ch') > Len(ack_ch) =>
            /\ running # << >>
            /\ ack_ch' = Append(ack_ch, ack_ch'[Len(ack_ch')])
            /\ ack_ch'[Len(ack_ch')].ctx = running[1].ctx]_vars
    /\ [][(ackt.pc = "done" /\ ackt' # ackt) =>
            /\ ackt' = AckIdle
            /\ UNCHANGED <<ack_ch, bmsg, dlq>>]_vars
    /\ [][(ackt'.pc = "exited" /\ ackt.pc # "exited") =>
            /\ ackt.pc = "idle"
            /\ ack_ch = << >>
            /\ closed.ack_tx]_vars
    /\ [](ackt.pc = "done" => ENABLED AckLoop)
    /\ []((ackt.pc = "idle" /\ ack_ch # << >>) => ENABLED AckRecv)
    /\ [](ackt.pc = "exited" => ack_ch = << >>)

\* Ack::ack has failed for one record while a later record waits on the channel.
C35_Witness ==
    /\ ackt.pc = "done"
    /\ ackt.res = "err"
    /\ ackt.ctx # NoMessage
    /\ ack_ch # << >>

\* The messages of deliveries that wait in a channel, run in the handler or
\* are with the ack task.
Handed ==
    {job_ch[i].m : i \in DOMAIN job_ch}
        \cup {running[i].ctx.m : i \in DOMAIN running}
        \cup {ack_ch[i].ctx.m : i \in DOMAIN ack_ch}
        \cup {ackt.ctx.m}

\* The messages the fetch loop pulled and has not handed to the job channel.
Unsent == {m \in DOMAIN bmsg : bmsg[m].st = "inflight" /\ m \notin Handed}

\* C36: back-pressure. The fetch loop holds at most one pulled message that it
\* has not handed to the job channel, the one of its pending send; while it
\* waits to send, no message is delivered, and on a full job channel it has no
\* step at all; the messages of one priority that were delivered and are not
\* acknowledged are never more than max_ack_pending.
C36_BackPressure ==
    /\ [](Cardinality(Unsent) <= 1)
    /\ [](Unsent # {} => fetch.pc = "send" /\ Unsent = {fetch.held.m})
    /\ [][fetch.pc = "send" =>
            \A m \in DOMAIN bmsg : bmsg'[m].delivered = bmsg[m].delivered]_vars
    /\ []((fetch.pc = "send" /\ Len(job_ch) = ChannelCap) => ~ENABLED FetchLoop)
    /\ [](\A p \in Priority : Cardinality(Pending(p)) <= max_ack_pending(config))

\* The fetch loop is blocked on a full job channel while a published message
\* waits for its first delivery.
C36_Witness ==
    /\ fetch.pc = "send"
    /\ Len(job_ch) = ChannelCap
    /\ \E m \in DOMAIN bmsg : bmsg[m].st = "avail" /\ bmsg[m].delivered = 0

\* The consumer of a priority has max_ack_pending unacknowledged deliveries
\* and a further message of the priority waits.
C36_LimitReached ==
    \E p \in Priority :
        /\ Cardinality(Pending(p)) = max_ack_pending(config)
        /\ \E m \in DOMAIN bmsg :
              bmsg[m].prio = p /\ bmsg[m].st = "avail" /\ bmsg[m].delivered = 0

\* The deliveries whose outcome record is on the ack channel or with the ack
\* task.
AtAckTask == {ack_ch[i].ctx : i \in DOMAIN ack_ch} \cup {ackt.ctx}

\* The deliveries that are anywhere between the pull and the end of Ack::ack.
InPipeline ==
    ({fetch.held} \cup {job_ch[i] : i \in DOMAIN job_ch}
        \cup {running[i].ctx : i \in DOMAIN running} \cup AtAckTask) \ {NoMessage}

\* C37: the progress ticker sends no in-progress signal for a delivery whose
\* terminal signal the ack task has sent. Every signal of the ticker is for
\* the delivery whose handler runs, and that delivery has no outcome record
\* yet: the ack task never holds the delivery of a running handler, and a
\* delivery that was with the ack task never runs again, since every pull
\* hands out a delivery count above that of every delivery pulled before.
C37_NoProgressAfterTerminal ==
    /\ [][HeartbeatTick =>
            /\ running # << >>
            /\ running[1].ctx.m = hb.m
            /\ running[1].ctx \notin AtAckTask]_vars
    /\ [](running # << >> => running[1].ctx \notin AtAckTask)
    /\ []((ackt.ctx # NoMessage /\ Sent # {}) =>
             ~(hb.on /\ hb.m = ackt.ctx.m
                     /\ (running = << >> \/ running[1].ctx = ackt.ctx)))
    /\ [](\A c \in InPipeline : c.delivered <= bmsg[c.m].delivered)
    /\ [][(fetch'.held # fetch.held /\ fetch'.held # NoMessage) =>
            fetch'.held.delivered = bmsg[fetch'.held.m].delivered + 1]_vars

\* The ack task has sent the terminal signal of a delivery for which the ticker
\* had sent an in-progress signal, while the ticker runs again for a later
\* delivery of the same message.
C37_Witness ==
    /\ ackt.ctx # NoMessage
    /\ ackt.progress = 1
    /\ Sent # {}
    /\ hb.on
    /\ hb.m = ackt.ctx.m
    /\ running # << >>
    /\ running[1].ctx.delivered > ackt.ctx.delivered

\* C38: every outcome record with a broker message that reaches the ack task
\* carries a delivery count between 1 and max_deliver, and no handler runs
\* for a delivery with a count above max_deliver.
C38_DeliveryCountInRange ==
    /\ \A c \in AtAckTask \ {NoMessage} : c.delivered \in 1..max_deliver
    /\ \A i \in DOMAIN running :
          running[i].ctx # NoMessage => running[i].ctx.delivered \in 1..max_deliver

\* Ack::ack has returned an error for a delivery without sending anything:
\* msg.info() failed.
InfoFailed ==
    /\ ackt.pc = "done"
    /\ ackt.ctx # NoMessage
    /\ ackt.res = "err"
    /\ ackt.ops = << >>

\* The deliveries that some task still holds: pulled and not yet through
\* Ack::ack.
Live == IF ackt.pc = "done" THEN InPipeline \ {ackt.ctx} ELSE InPipeline

\* C39: when the delivery metadata cannot be read for an error outcome, Ack::ack
\* returns an error without a broker operation: the step changes neither a
\* message nor the DLQ stream, no signal and no DLQ publish is recorded for the
\* delivery, and a delivered message that no task holds any more stays in
\* flight until its ack_wait runs out.
C39_InfoFailureSendsNothing ==
    /\ [][(ackt.pc = "idle" /\ ackt'.pc = "done" /\ ackt'.res = "err") =>
            /\ Head(ack_ch).outcome # "ok"
            /\ ackt'.ctx = Head(ack_ch).ctx
            /\ UNCHANGED <<bmsg, dlq, pushed>>]_vars
    /\ [](InfoFailed => Sent = {} /\ Len(dlq) = ackt.dlq0)
    /\ [][\A m \in DOMAIN bmsg :
            (/\ bmsg[m].st = "inflight"
             /\ ~\E c \in Live : c.m = m
             /\ bmsg'[m] # bmsg[m]) => bmsg'[m] = AfterGiveUp(bmsg[m])]_vars

\* Ack::ack has returned the error for the delivery of a failed handler and
\* the message is still in flight, with no signal sent for it.
C39_Witness ==
    /\ InfoFailed
    /\ ackt.outcome \in {"transient", "abort"}
    /\ bmsg[ackt.ctx.m].st = "inflight"
    /\ bmsg[ackt.ctx.m].delivered = ackt.ctx.delivered
    /\ ackt.signals = 0

====
